---- MODULE Spec2Model ----
(***************************************************************************)
(* A model of the implicit time-integration hooks of ATS:                  *)
(*   - MPCSubsurface (setup, update_precon, precon): the coupler for       *)
(*     subsurface flow and energy and its preconditioning strategies;      *)
(*   - EnergyBase (IsAdmissible, ModifyPredictor, ModifyCorrection);       *)
(*   - the field evaluators (EnsureCompatibility over the dependency       *)
(*     graph).                                                             *)
(* Each subsystem has its own specification (SpecMPC, SpecAdm, SpecPred,   *)
(* SpecCorr, SpecEC); the variables of the other subsystems stay at their  *)
(* initial values.                                                         *)
(***************************************************************************)
EXTENDS Integers, Sequences, FiniteSets, TLC

VARIABLES
  \* ---- MPCSubsurface
  plist_,        \* the coupler's parameter list (the options setup reads)
  pk_phase,      \* "constructed" | "setup" | "failed"
  precon_type_,  \* the selected preconditioner type, "UNINIT" until assigned
  ewc_,          \* TRUE iff the EWC delegate exists (ewc_ != Teuchos::null)
  hooks_run,     \* which of "update_precon", "precon" have been entered so far
  assembled,     \* the operators update_precon has (re)assembled so far
  applied,       \* the preconditioners the last precon call applied
  u_arg,         \* the residual u the solver hands to precon
  Pu,            \* the correction Pu (the output argument of precon)
  Pu_std,        \* precon's local Pu_std
  res0,          \* precon's local res0
  ewc_in,        \* the Pu the delegate's precon was handed
  ewc_failed,    \* the cells on which the delegate did not converge
  precon_pc,     \* 0: not inside the EWC branch; k: next statement EwcProgram[k]
  trace,         \* the statements of the EWC branch executed in this call
  mpc_crashed,   \* a null ewc_ was dereferenced
  \* ---- EnergyBase::IsAdmissible, one call on every rank
  up_ents,       \* the solution vector up: its owned entities, rank by rank
  has_face,      \* up->Data()->HasComponent("face")
  adm_pc,        \* per rank: "scan" | "reduce" | "decide" | "done"
  minT_l,        \* per rank: the local minimum minT_l
  maxT_l,        \* per rank: the local maximum maxT_l
  minT,          \* per rank: minT after MinAll
  maxT,          \* per rank: maxT after MaxAll
  verdict,       \* per rank: "pending" | "admissible" | "rejected"
  \* ---- EnergyBase::ModifyPredictor
  modify_predictor_for_freezing_,
  modify_predictor_with_consistent_faces_,
  pred_ents,     \* the cell and boundary_face entities: component and u0 value
  pred_u,        \* u: the value of each of those entities
  pred_u_face,   \* u: the face component
  pred_u_in,     \* u and its face component as passed to the last call
  pred_ret,      \* the values ModifyPredictor returned, call by call
  \* ---- EnergyBase::ModifyCorrection
  T_limit_,      \* "limit correction to temperature change [K]"
  corr_bfs,      \* the boundary faces: markers, value, inner cell, T_bf
  corr_du,       \* du: its cell and boundary_face components
  corr_du_in,    \* du as passed to the call
  other_limited, \* the entries limited on the other ranks
  corr_ret,      \* "none" | "CORRECTION_MODIFIED" | "CORRECTION_NOT_MODIFIED"
  \* ---- the evaluator graph and EnsureCompatibility
  ev_kind,       \* per key: "overland" | "water_table" | "leaf"
  ev_deps,       \* per key: dependencies_ of its evaluator
  ev_mobile,     \* per key: mobile_depth_key_ (overland evaluators)
  fld,           \* per key: the layout of its field (mesh set?, components)
  ec_stack,      \* the EnsureCompatibility calls in progress, innermost last
  ec_status,     \* "idle" | "running" | "returned" | "error"
  ec_visits,     \* per key: EnsureCompatibility entries in this top-level call
  fld_log,       \* the layouts before the first top-level call and after
                 \* each top-level call that returned
  \* ---- HasFieldChanged over a dependency chain
  hf_kind,       \* per key: "leaf" | "secondary" | "water_table"
  hf_deps,       \* per key: dependencies_
  hf_requests,   \* per key: requests_ of its evaluator
  hf_once,       \* per key: updated_once_ (water-table evaluators)
  hf_evals,      \* per key: how often EvaluateField_ has run
  hf_stale,      \* per key: a dependency changed since the field was evaluated
  hf_due,        \* per key: evaluations due so far (one per stale epoch queried)
  hf_pending,    \* per key and requester: changed since its last observation
  hf_last,       \* the last query: key, requester, value returned, value due
  hf_ops,        \* queries and changes so far
  \* ---- EvaluateField_ and EvaluateFieldPartialDerivative_ of one evaluator
  pf_kind,       \* "overland" | "liquid_ice" | "water_table" | "porosity"
  pf_x,          \* the dependency fields: per key, one value per entity
  pf_y,          \* the same fields with one entity of one dependency changed
  pf_dep,        \* the dependency that differs between pf_x and pf_y
  pf_cell,       \* the entity at which it differs
  pf_res,        \* the last result: on pf_x, on pf_y, and the finite
                 \* difference quotient at pf_x for a partial derivative
  \* ---- FATES_PK under a driver that accepts or rejects step attempts
  dt_photosynthesis_,  \* "photosynthesis time step"
  dt_site_dym_,        \* "veg dynamics time step"
  t_photosynthesis_,   \* time photosynthesis last ran
  t_site_dym_,         \* time the vegetation dynamics last ran
  clump_,              \* the external model: time over which fluxes were
                       \* accumulated, and vegetation-dynamics runs
  biomass,             \* the PK's own field
  S_time,              \* time of the accepted state
  ft_phase,            \* "idle" | "advanced" (an attempt awaits the driver)
  ft_tnew,             \* t_new of the attempt
  ft_ref,              \* schedule and external model had only the accepted
                       \* attempts been made
  ft_rejected,         \* step attempts the driver rejected
  \* ---- Setup of a PK and the fields it reads afterwards
  su_pk,               \* the PK: "fates" | "energy"
  key_delim,           \* the delimiter Keys puts between domain and name
  has_param_files,     \* FATES: both parameter files are given
  surface_only_,       \* FATES: "surface only"
  salinity_on_,        \* FATES: "salinity"
  domain_,             \* EnergyBase: the PK's domain
  surface_coupling,    \* EnergyBase: "none" | "flux" | "temperature" | "both"
  ss_flux_key_,        \* EnergyBase member
  ss_primary_key_,     \* EnergyBase member
  su_fields,           \* the State's required fields: key, owner, mesh, components
  su_evals,            \* keys with a required field evaluator
  su_ensured,          \* fields, scalars and meshes Setup required or found
  su_reads,            \* fields, scalars and meshes read by the last operation
  su_log,              \* fields and evaluators after each Setup that returned
  su_thrown,           \* Setup left by amanzi_throw
  \* ---- Setup and Initialize of EnergyBase and FATES_PK: the owned fields
  eb_pk,               \* the PK: "energy" | "fates"
  method_name,         \* "upwind conductivity method"
  discretization_primary,  \* "discretization primary" of the preconditioner
  newton_correction,   \* "Newton correction" of the preconditioner
  plist_via_flux,      \* "coupled to surface via flux"
  plist_via_temp,      \* "coupled to surface via temperature"
  upwinding_,          \* the upwinding strategy ("null" before Setup)
  coupled_to_surface_via_flux_,
  coupled_to_surface_via_temp_,
  duw_conductivity_key_,   \* "" when no derivative is upwinded
  eb_required,         \* the fields required with the PK as owner
  eb_data,             \* per field: its value (one entry stands for all)
  eb_initialized,      \* per field: marked initialized
  eb_phase,            \* "constructed" | "setup" | "failed" | "initialized"
  \* ---- FATES_PK::get_dt
  dt_,                 \* the cached time step
  gd_calls,            \* calls of get_dt so far
  gd_snap,             \* the members and the time read by the last call
  \* ---- EvaluateFieldPartialDerivative_: the branch taken for wrt_key
  pd_kind,             \* the evaluator: "liquid_ice" | "richards" | "overland"
  pd_wrt,              \* wrt_key
  pd_dbc,              \* assertions compiled in (AMANZI_ASSERT is not empty)
  pd_answer,           \* what filled result: a model partial, "PutScalar(0.)",
                       \* "AMANZI_ASSERT(0)", "untouched"; "none" before the call
  \* ---- MPCSubsurface::modify_predictor and modify_correction
  mp_ewc,              \* ewc_ != Teuchos::null
  mp_op,               \* the last call: "none" | "modify_predictor" | "modify_correction"
  mp_in,               \* its argument (up or du) as passed in
  mp_out,              \* its argument after the call
  mp_answers,          \* what the delegate and the base coupler returned
  mp_ret,              \* the value returned
  mp_trace,            \* the calls made, in order
  mp_calls,            \* calls so far
  \* ---- EnergyBase: the boundary conditions
  bc_faces,            \* per boundary function: the faces it names
  bc_computed,         \* per boundary function: the time of its last Compute
  bc_coupling,         \* "none" | "temperature" | "flux": the surface coupling
  bc_now,              \* the time of the state being advanced and committed
  bc_state,            \* per face: markers, values, adv_markers, adv_values
  bc_built             \* the last UpdateBoundaryConditions_: caller, time and
                       \* the times the three functions were computed at

mpcVars == <<plist_, pk_phase, precon_type_, ewc_, hooks_run, assembled, applied,
             u_arg, Pu, Pu_std, res0, ewc_in, ewc_failed, precon_pc, trace,
             mpc_crashed>>

admVars == <<up_ents, has_face, adm_pc, minT_l, maxT_l, minT, maxT, verdict>>

predVars == <<modify_predictor_for_freezing_,
              modify_predictor_with_consistent_faces_,
              pred_ents, pred_u, pred_u_face, pred_u_in, pred_ret>>

corrVars == <<T_limit_, corr_bfs, corr_du, corr_du_in, other_limited, corr_ret>>

ecVars == <<ev_kind, ev_deps, ev_mobile, fld, ec_stack, ec_status, ec_visits,
            fld_log>>

hfVars == <<hf_kind, hf_deps, hf_requests, hf_once, hf_evals, hf_stale, hf_due,
            hf_pending, hf_last, hf_ops>>

pfVars == <<pf_kind, pf_x, pf_y, pf_dep, pf_cell, pf_res>>

ftVars == <<dt_photosynthesis_, dt_site_dym_, t_photosynthesis_, t_site_dym_,
            clump_, biomass, S_time, ft_phase, ft_tnew, ft_ref, ft_rejected>>

suVars == <<su_pk, key_delim, has_param_files, surface_only_, salinity_on_,
            domain_, surface_coupling, ss_flux_key_, ss_primary_key_, su_fields,
            su_evals, su_ensured, su_reads, su_log, su_thrown>>

ebVars == <<eb_pk, method_name, discretization_primary, newton_correction,
            plist_via_flux, plist_via_temp, upwinding_,
            coupled_to_surface_via_flux_, coupled_to_surface_via_temp_,
            duw_conductivity_key_, eb_required, eb_data, eb_initialized,
            eb_phase>>

gdVars == <<dt_, gd_calls, gd_snap>>

pdVars == <<pd_kind, pd_wrt, pd_dbc, pd_answer>>

mpVars == <<mp_ewc, mp_op, mp_in, mp_out, mp_answers, mp_ret, mp_trace, mp_calls>>

bcVars == <<bc_faces, bc_computed, bc_coupling, bc_now, bc_state, bc_built>>

vars == <<mpcVars, admVars, predVars, corrVars, ecVars, hfVars, pfVars, ftVars,
          suVars,
          ebVars,
          gdVars,
          pdVars,
          mpVars,
          bcVars>>

\* what an action of one subsystem leaves alone
notMPC == <<admVars, predVars, corrVars, ecVars, hfVars, pfVars, ftVars, suVars, ebVars, gdVars, pdVars, mpVars, bcVars>>
notAdm == <<mpcVars, predVars, corrVars, ecVars, hfVars, pfVars, ftVars, suVars, ebVars, gdVars, pdVars, mpVars, bcVars>>
notPred == <<mpcVars, admVars, corrVars, ecVars, hfVars, pfVars, ftVars, suVars, ebVars, gdVars, pdVars, mpVars, bcVars>>
notCorr == <<mpcVars, admVars, predVars, ecVars, hfVars, pfVars, ftVars, suVars, ebVars, gdVars, pdVars, mpVars, bcVars>>
notEC == <<mpcVars, admVars, predVars, corrVars, hfVars, pfVars, ftVars, suVars, ebVars, gdVars, pdVars, mpVars, bcVars>>
notHF == <<mpcVars, admVars, predVars, corrVars, ecVars, pfVars, ftVars, suVars, ebVars, gdVars, pdVars, mpVars, bcVars>>
notPF == <<mpcVars, admVars, predVars, corrVars, ecVars, hfVars, ftVars, suVars, ebVars, gdVars, pdVars, mpVars, bcVars>>
notFT == <<mpcVars, admVars, predVars, corrVars, ecVars, hfVars, pfVars, suVars, ebVars, gdVars, pdVars, mpVars, bcVars>>
notSU == <<mpcVars, admVars, predVars, corrVars, ecVars, hfVars, pfVars, ftVars, ebVars, gdVars, pdVars, mpVars, bcVars>>
notEB == <<mpcVars, admVars, predVars, corrVars, ecVars, hfVars, pfVars, ftVars, suVars, gdVars, pdVars, mpVars, bcVars>>
notGD == <<mpcVars, admVars, predVars, corrVars, ecVars, hfVars, pfVars, ftVars, suVars, ebVars, pdVars, mpVars, bcVars>>
notPD == <<mpcVars, admVars, predVars, corrVars, ecVars, hfVars, pfVars, ftVars, suVars, ebVars, gdVars, mpVars, bcVars>>
notMP == <<mpcVars, admVars, predVars, corrVars, ecVars, hfVars, pfVars, ftVars, suVars, ebVars, gdVars, pdVars, bcVars>>
notBC == <<mpcVars, admVars, predVars, corrVars, ecVars, hfVars, pfVars, ftVars, suVars, ebVars, gdVars, pdVars, mpVars>>

\* ------------------------------------------------------------------------
\* Bounds of the model
\* ------------------------------------------------------------------------
NCells == 2
NFaces == 1
NRanks == 2
MaxEnt == 2
MaxPredCalls == 2
MaxBf == 1
MaxEcCalls == 2      \* top-level EnsureCompatibility calls
MaxEcDepth == 5      \* nested EnsureCompatibility calls followed
MaxHfOps == 4        \* HasFieldChanged queries and dependency changes
MaxFatesTime == 6    \* end of the simulated time
MaxRejected == 2     \* step attempts the driver rejects
MaxSetups == 3       \* calls of Setup on one PK
MaxGetDtCalls == 2
MaxModifyCalls == 3
MaxBcTime == 2

Cells == 1..NCells
Faces == 1..NFaces
Sub == {0, 1}                \* SubVector(0): flow (p), SubVector(1): energy (T)
ResidualVals == {0, 1}       \* the entries a residual is drawn from

\* ------------------------------------------------------------------------
\* TreeVector with two sub-vectors, each with a cell and a face component
\* ------------------------------------------------------------------------
CompVec(cv, fv) == [cell |-> cv, face |-> fv]
TreeVectors(V) == [Sub -> [cell : [Cells -> V], face : [Faces -> V]]]
\* TreeVector::PutScalar(0.)
PutScalarZero(v) ==
  [s \in Sub |-> CompVec([c \in Cells |-> 0], [f \in Faces |-> 0])]
\* this->Update(scalarA, A, scalarThis): this = scalarA * A + scalarThis * this
Update(this, scalarA, A, scalarThis) ==
  [s \in Sub |->
     CompVec([c \in Cells |-> scalarA * A[s].cell[c] + scalarThis * this[s].cell[c]],
             [f \in Faces |-> scalarA * A[s].face[f] + scalarThis * this[s].face[f]])]

\* the cells a face touches (a chain of cells: face f lies between f and f+1)
FaceCells(f) == {c \in Cells : c = f \/ c = f + 1}
RECURSIVE SumOver(_, _)
SumOver(S, g) ==
  IF S = {} THEN 0
  ELSE LET x == CHOOSE y \in S : TRUE IN g[x] + SumOver(S \ {x}, g)

ZeroVec == [s \in Sub |-> CompVec([c \in Cells |-> 0], [f \in Faces |-> 0])]

\* ------------------------------------------------------------------------
\* The collaborators of MPCSubsurface::precon
\* ------------------------------------------------------------------------
\* StrongMPC::precon: each child's own preconditioner on its own block; the
\* block of sub-vector s reads nothing of sub-vector 1-s.
StrongPrecon(u) ==
  [s \in Sub |->
     CompVec([c \in Cells |-> 3 * u[s].cell[c]],
             [f \in Faces |-> 3 * u[s].face[f] + SumOver(FaceCells(f), u[s].cell)])]

\* MPCCoupledCells::precon: the monolithic operator with the off-diagonal
\* cell coupling between the two children.
CoupledPrecon(u) ==
  [s \in Sub |->
     CompVec([c \in Cells |-> 3 * u[s].cell[c] + 2 * u[1 - s].cell[c]],
             [f \in Faces |-> 3 * u[s].face[f] + SumOver(FaceCells(f), u[s].cell)])]

\* The delegate's per-entity solve in conserved-quantity space: the new pair
\* (p, T) of one cell, from that cell's residual and PICARD correction only.
EwcLocalSolve(rp, rT, p, T) == <<p + T + rp + 1, T + rT + 1>>

\* MPCDelegateEWC::precon(u, Pu): updates the cell part of Pu entity by
\* entity; on the cells of `failed` (no convergence) Pu is left unchanged.
DelegatePrecon(u, P, failed) ==
  [s \in Sub |->
     CompVec([c \in Cells |->
                IF c \in failed THEN P[s].cell[c]
                ELSE EwcLocalSolve(u[0].cell[c], u[1].cell[c],
                                   P[0].cell[c], P[1].cell[c])[s + 1]],
             P[s].face)]

\* UpdateConsistentFaceCorrection(res, Pu): the face entries of Pu that are
\* consistent with its cell entries for the face residual res.
UpdateConsistentFaceCorrection(res, P) ==
  [s \in Sub |->
     CompVec(P[s].cell,
             [f \in Faces |-> res[s].face[f] + SumOver(FaceCells(f), P[s].cell)])]

\* ------------------------------------------------------------------------
\* MPCSubsurface::setup
\* ------------------------------------------------------------------------
PreconStrings == {"none", "block diagonal", "picard", "ewc", "smart ewc",
                  "EWC", "jacobi", ""}
\* A parameter list: whether "preconditioner type" is present and its value,
\* whether the sublist "ewc delegate" and the parameter "predictor type" exist.
Plists ==
  [has_precon : {TRUE}, precon : PreconStrings,
   ewc_sublist : BOOLEAN, predictor_type : BOOLEAN]
  \cup [has_precon : {FALSE}, precon : {""},
        ewc_sublist : BOOLEAN, predictor_type : BOOLEAN]

\* plist_->get<std::string>("preconditioner type", "picard")
GetPreconString(pl) == IF pl.has_precon THEN pl.precon ELSE "picard"

\* setup with the final else branch (the throw) missing
setupNoThrow(pl, type0) ==
  LET precon_string == GetPreconString(pl)
      type == CASE precon_string = "none" -> "PRECON_NONE"
                [] precon_string = "block diagonal" -> "PRECON_BLOCK_DIAGONAL"
                [] precon_string = "picard" -> "PRECON_PICARD"
                [] precon_string = "ewc" -> "PRECON_EWC"
                [] precon_string = "smart ewc" -> "PRECON_EWC"
                [] OTHER -> type0
  IN IF pl.ewc_sublist
       THEN [phase |-> "setup", type |-> type, ewc |-> TRUE]
       ELSE IF pl.predictor_type
         THEN [phase |-> "failed", type |-> type, ewc |-> FALSE]
         ELSE [phase |-> "setup", type |-> type, ewc |-> FALSE]

\* The outcome of setup on parameter list pl, precon_type_ being type0 before:
\* the phase it ends in ("failed": an exception left setup), precon_type_
\* and whether the delegate was created.
setup(pl, type0) ==
  LET precon_string == GetPreconString(pl)
      type == CASE precon_string = "none" -> "PRECON_NONE"
                [] precon_string = "block diagonal" -> "PRECON_BLOCK_DIAGONAL"
                [] precon_string = "picard" -> "PRECON_PICARD"
                [] precon_string = "ewc" -> "PRECON_EWC"
                [] precon_string = "smart ewc" -> "PRECON_EWC"
                [] OTHER -> "INVALID"
  IN IF type = "INVALID"
       THEN \* amanzi_throw("Invalid preconditioner type ...")
            [phase |-> "failed", type |-> type0, ewc |-> FALSE]
       ELSE IF pl.ewc_sublist
         THEN [phase |-> "setup", type |-> type, ewc |-> TRUE]
         ELSE IF pl.predictor_type
           THEN \* amanzi_throw("Old-style subsurface ParameterList ...")
                [phase |-> "failed", type |-> type, ewc |-> FALSE]
           ELSE [phase |-> "setup", type |-> type, ewc |-> FALSE]

Setup ==
  /\ UNCHANGED notMPC
  /\ pk_phase = "constructed"
  /\ LET r == setup(plist_, precon_type_) IN
       /\ pk_phase' = r.phase
       /\ precon_type_' = r.type
       /\ ewc_' = r.ewc
  /\ UNCHANGED <<plist_, hooks_run, assembled, applied, u_arg, Pu, Pu_std, res0,
                 ewc_in, ewc_failed, precon_pc, trace, mpc_crashed>>

\* ------------------------------------------------------------------------
\* MPCSubsurface::update_precon
\* ------------------------------------------------------------------------
\* The update_precon calls made for a preconditioner type, in order.
update_precon_calls(type) ==
  CASE type = "PRECON_NONE" -> <<>>
    [] type = "PRECON_BLOCK_DIAGONAL" -> <<"StrongMPC">>
    [] type = "PRECON_PICARD" -> <<"MPCCoupledCells">>
    [] type = "PRECON_EWC" -> <<"MPCCoupledCells", "ewc_">>
    [] OTHER -> <<>>

Range(q) == {q[i] : i \in DOMAIN q}

PreconTypes == {"PRECON_NONE", "PRECON_BLOCK_DIAGONAL", "PRECON_PICARD", "PRECON_EWC"}
\* The values a read of precon_type_ can give: the value assigned, or, of a
\* member that was never assigned, any value at all.
ReadType(t) == IF t = "UNINIT" THEN PreconTypes \cup {"OUT_OF_RANGE"} ELSE {t}

UpdatePrecon ==
  /\ UNCHANGED notMPC
  /\ pk_phase = "setup" /\ precon_pc = 0 /\ ~mpc_crashed
  /\ hooks_run' = hooks_run \cup {"update_precon"}
  /\ \E type \in ReadType(precon_type_) :
     LET calls == update_precon_calls(type) IN
       IF "ewc_" \in Range(calls) /\ ~ewc_
         THEN \* ewc_->update_precon on a null ewc_
              /\ assembled' = assembled \cup (Range(calls) \ {"ewc_"})
              /\ mpc_crashed' = TRUE
         ELSE /\ assembled' = assembled \cup Range(calls)
              /\ UNCHANGED mpc_crashed
  /\ UNCHANGED <<plist_, pk_phase, precon_type_, ewc_, applied, u_arg, Pu,
                 Pu_std, res0, ewc_in, ewc_failed, precon_pc, trace>>

\* ------------------------------------------------------------------------
\* MPCSubsurface::precon
\* ------------------------------------------------------------------------
\* precon with each branch calling the next strategy's preconditioner
preconShifted(type, u) ==
  CASE type = "PRECON_NONE" ->
         [Pu |-> StrongPrecon(u), applied |-> <<"StrongMPC">>]
    [] type = "PRECON_BLOCK_DIAGONAL" ->
         [Pu |-> CoupledPrecon(u), applied |-> <<"MPCCoupledCells">>]
    [] type = "PRECON_PICARD" ->
         [Pu |-> CoupledPrecon(u), applied |-> <<"MPCCoupledCells">>]
    [] OTHER -> [Pu |-> ZeroVec, applied |-> <<>>]

\* The branches of precon that are a single call: the correction and the
\* preconditioners applied.
precon(type, u) ==
  CASE type = "PRECON_NONE" -> [Pu |-> u, applied |-> <<>>]
    [] type = "PRECON_BLOCK_DIAGONAL" ->
         [Pu |-> StrongPrecon(u), applied |-> <<"StrongMPC">>]
    [] type = "PRECON_PICARD" ->
         [Pu |-> CoupledPrecon(u), applied |-> <<"MPCCoupledCells">>]
    [] OTHER -> [Pu |-> ZeroVec, applied |-> <<>>]   \* no branch: Pu as handed in

\* The EWC branch with the copy Pu_std taken after the delegate's call
EwcProgramCopyLate == <<"picard", "ewc", "copy", "diff", "faces">>

\* The statements of the EWC branch of precon, in program order.
EwcProgram == <<"picard", "copy", "ewc", "diff", "faces">>

Stmt == IF precon_pc \in DOMAIN EwcProgram THEN EwcProgram[precon_pc] ELSE "none"

\* the step to the statement after the current one; past the last, precon returns
Advance ==
  /\ precon_pc' = IF precon_pc = Len(EwcProgram) THEN 0 ELSE precon_pc + 1
  /\ trace' = Append(trace, Stmt)

\* The face update with the whole of Pu_std added, cells included
FaceUpdateAllComponents(P, Pstd) == Update(P, 1, Pstd, 1)

\* Pu->SubVector(s)->Data()->ViewComponent("face")->Update(1., Pu_std face, 1.)
\* for s = 0 and s = 1
FaceUpdate(P, Pstd) ==
  [s \in Sub |->
     CompVec(P[s].cell, [f \in Faces |-> 1 * Pstd[s].face[f] + 1 * P[s].face[f]])]

\* Entry of precon(u, Pu): the caller hands the residual u and a fresh Pu. Every
\* branch but EWC is one call; the EWC branch continues statement by statement.
PreconCall ==
  /\ UNCHANGED notMPC
  /\ pk_phase = "setup" /\ precon_pc = 0 /\ ~mpc_crashed
  /\ \E type \in ReadType(precon_type_) :
     LET u == u_arg IN
       /\ IF type = "PRECON_EWC"
            THEN /\ Pu' = ZeroVec
                 /\ applied' = <<>>
                 /\ precon_pc' = 1
            ELSE /\ Pu' = precon(type, u).Pu
                 /\ applied' = precon(type, u).applied
                 /\ precon_pc' = 0
  /\ hooks_run' = hooks_run \cup {"precon"}
  /\ Pu_std' = ZeroVec /\ res0' = ZeroVec /\ ewc_in' = ZeroVec
  /\ ewc_failed' = {} /\ trace' = <<>>
  /\ UNCHANGED <<plist_, pk_phase, precon_type_, ewc_, assembled, u_arg,
                 mpc_crashed>>

\* MPCCoupledCells::precon(u, Pu)
EwcPicard ==
  /\ UNCHANGED notMPC
  /\ Stmt = "picard" /\ ~mpc_crashed
  /\ Pu' = CoupledPrecon(u_arg)
  /\ applied' = Append(applied, "MPCCoupledCells")
  /\ Advance
  /\ UNCHANGED <<plist_, pk_phase, precon_type_, ewc_, hooks_run, assembled,
                 u_arg, Pu_std, res0, ewc_in, ewc_failed, mpc_crashed>>

\* res0 = copy of u, zeroed; Pu_std = copy of Pu
EwcCopy ==
  /\ UNCHANGED notMPC
  /\ Stmt = "copy" /\ ~mpc_crashed
  /\ res0' = PutScalarZero(u_arg)
  /\ Pu_std' = Pu
  /\ Advance
  /\ UNCHANGED <<plist_, pk_phase, precon_type_, ewc_, hooks_run, assembled,
                 applied, u_arg, Pu, ewc_in, ewc_failed, mpc_crashed>>

\* ewc_->precon(u, Pu); on a null ewc_ the call never returns
EwcDelegate ==
  /\ UNCHANGED notMPC
  /\ Stmt = "ewc" /\ ~mpc_crashed
  /\ \/ /\ ~ewc_
        /\ mpc_crashed' = TRUE
        /\ UNCHANGED <<Pu, applied, ewc_in, ewc_failed, precon_pc, trace>>
     \/ /\ ewc_
        /\ \E failed \in SUBSET Cells :
             /\ ewc_failed' = failed
             /\ Pu' = DelegatePrecon(u_arg, Pu, failed)
        /\ ewc_in' = Pu
        /\ applied' = Append(applied, "ewc_")
        /\ Advance
        /\ UNCHANGED mpc_crashed
  /\ UNCHANGED <<plist_, pk_phase, precon_type_, ewc_, hooks_run, assembled,
                 u_arg, Pu_std, res0>>

\* Pu_std = Pu - Pu_std, then the face correction consistent with it
EwcDiff ==
  /\ UNCHANGED notMPC
  /\ Stmt = "diff" /\ ~mpc_crashed
  /\ Pu_std' = UpdateConsistentFaceCorrection(res0, Update(Pu_std, 1, Pu, -1))
  /\ Advance
  /\ UNCHANGED <<plist_, pk_phase, precon_type_, ewc_, hooks_run, assembled,
                 applied, u_arg, Pu, res0, ewc_in, ewc_failed, mpc_crashed>>

\* the face part of both sub-vectors of Pu gets the face correction
EwcFaces ==
  /\ UNCHANGED notMPC
  /\ Stmt = "faces" /\ ~mpc_crashed
  /\ Pu' = FaceUpdate(Pu, Pu_std)
  /\ Advance
  /\ UNCHANGED <<plist_, pk_phase, precon_type_, ewc_, hooks_run, assembled,
                 applied, u_arg, Pu_std, res0, ewc_in, ewc_failed, mpc_crashed>>

\* ------------------------------------------------------------------------
\* Temperatures: <<k, m>> is k + m * 10^-5 kelvin, 0 <= m < 10^5
\* ------------------------------------------------------------------------
TLt(a, b) == a[1] < b[1] \/ (a[1] = b[1] /\ a[2] < b[2])
\* std::min(a, b) and std::max(a, b)
TMin(a, b) == IF TLt(b, a) THEN b ELSE a
TMax(a, b) == IF TLt(a, b) THEN b ELSE a

SentinelK == 1000000
LowerBoundK == 200
UpperBoundK == 330
SentinelHi == <<SentinelK, 0>>        \* 1.e6
SentinelLo == <<0 - SentinelK, 0>>    \* -1.e6
T200 == <<LowerBoundK, 0>>            \* 200.0
T330 == <<UpperBoundK, 0>>            \* 330.0

\* the temperatures an entity is drawn from: each bound, and one step outside
TempSamples == {<<LowerBoundK - 1, 99999>>, T200, T330, <<UpperBoundK, 1>>}

\* ------------------------------------------------------------------------
\* EnergyBase::IsAdmissible
\* ------------------------------------------------------------------------
Ranks == 1..NRanks
\* The components of the primary variable: those of the operator's range map
\* (cell, and face for a mimetic discretization) and boundary_face.
Kinds(hf) == IF hf THEN {"cell", "face", "boundary_face"}
             ELSE {"cell", "boundary_face"}
Entities(hf) == [owner : Ranks, kind : Kinds(hf), T : TempSamples]
\* The entities are listed rank by rank and, on a rank, component by
\* component, as the vector stores them.
KindIndex(kind) == CASE kind = "cell" -> 0 [] kind = "face" -> 1 [] OTHER -> 2
StorageKey(e) == 3 * e.owner + KindIndex(e.kind)
EntSeqs(hf) ==
  {ents \in UNION {[1..n -> Entities(hf)] : n \in 0..MaxEnt} :
     \A i \in 1..(Len(ents) - 1) : StorageKey(ents[i]) <= StorageKey(ents[i + 1])}

\* ViewComponent(kind, false) on rank r: the owned entries, in order
RECURSIVE ViewComponent(_, _, _)
ViewComponent(ents, r, kind) ==
  IF ents = <<>> THEN <<>>
  ELSE LET e == Head(ents)
           rest == ViewComponent(Tail(ents), r, kind)
       IN IF e.owner = r /\ e.kind = kind THEN <<e.T>> \o rest ELSE rest

\* the loops over a component: the running minimum and maximum from index i on
RECURSIVE ScanMin(_, _, _)
ScanMin(v, i, acc) ==
  IF i > Len(v) THEN acc
  ELSE ScanMin(v, i + 1, IF TLt(v[i], acc) THEN v[i] ELSE acc)
RECURSIVE ScanMax(_, _, _)
ScanMax(v, i, acc) ==
  IF i > Len(v) THEN acc
  ELSE ScanMax(v, i + 1, IF TLt(acc, v[i]) THEN v[i] ELSE acc)

\* minT and maxT of a rank before the reduction
LocalExtrema(ents, hf, r) ==
  LET temp_c == ViewComponent(ents, r, "cell")
      minT_c == ScanMin(temp_c, 1, SentinelHi)
      maxT_c == ScanMax(temp_c, 1, SentinelLo)
  IN IF hf
       THEN LET temp_f == ViewComponent(ents, r, "face")
                minT_f == ScanMin(temp_f, 1, SentinelHi)
                maxT_f == ScanMax(temp_f, 1, SentinelLo)
            IN [min |-> TMin(minT_c, minT_f), max |-> TMax(maxT_c, maxT_f)]
       ELSE [min |-> minT_c, max |-> maxT_c]

RECURSIVE FoldRanks(_, _, _, _)
FoldRanks(op(_, _), local, r, acc) ==
  IF r > NRanks THEN acc ELSE FoldRanks(op, local, r + 1, op(acc, local[r]))

\* a reduction that returns each rank its own value
MinAllLocal(local, r) == local[r]

\* get_comm()->MinAll(&minT_l, &minT, 1): what rank r receives
MinAll(local, r) == FoldRanks(TMin, local, 2, local[1])
\* get_comm()->MaxAll(&maxT_l, &maxT, 1): what rank r receives
MaxAll(local, r) == FoldRanks(TMax, local, 2, local[1])

\* the test with the bounds themselves rejected
InBoundsStrict(mn, mx) == TLt(T200, mn) /\ TLt(mx, T330)

\* !(minT < 200.0 || maxT > 330.0)
InBounds(mn, mx) == ~(TLt(mn, T200) \/ TLt(T330, mx))

\* the loops over the owned cells and faces of rank r
AdmScan(r) ==
  /\ UNCHANGED notAdm
  /\ adm_pc[r] = "scan"
  /\ LET x == LocalExtrema(up_ents, has_face, r) IN
       /\ minT_l' = [minT_l EXCEPT ![r] = x.min]
       /\ maxT_l' = [maxT_l EXCEPT ![r] = x.max]
  /\ adm_pc' = [adm_pc EXCEPT ![r] = "reduce"]
  /\ UNCHANGED <<up_ents, has_face, minT, maxT, verdict>>

\* MaxAll and MinAll: collective, they complete once every rank has called them
AdmReduce ==
  /\ UNCHANGED notAdm
  /\ \A r \in Ranks : adm_pc[r] = "reduce"
  /\ maxT' = [r \in Ranks |-> MaxAll(maxT_l, r)]
  /\ minT' = [r \in Ranks |-> MinAll(minT_l, r)]
  /\ adm_pc' = [r \in Ranks |-> "decide"]
  /\ UNCHANGED <<up_ents, has_face, minT_l, maxT_l, verdict>>

\* the test against the bounds and the return
AdmReturn(r) ==
  /\ UNCHANGED notAdm
  /\ adm_pc[r] = "decide"
  /\ verdict' = [verdict EXCEPT
                   ![r] = IF InBounds(minT[r], maxT[r]) THEN "admissible"
                          ELSE "rejected"]
  /\ adm_pc' = [adm_pc EXCEPT ![r] = "done"]
  /\ UNCHANGED <<up_ents, has_face, minT_l, maxT_l, minT, maxT>>

\* ------------------------------------------------------------------------
\* EnergyBase::ModifyPredictor
\* ------------------------------------------------------------------------
FreezeK == 273
FreezeFrac == 15000
EpsFrac == 1
TFreeze == <<FreezeK, FreezeFrac>>                \* 273.15
TFreezeMinus == <<FreezeK, FreezeFrac - EpsFrac>> \* 273.15 - .00001
TFreezePlus == <<FreezeK, FreezeFrac + EpsFrac>>  \* 273.15 + .00001

\* the old values and the predicted values an entity is drawn from
U0Samples == {<<FreezeK - 3, 0>>, TFreeze, <<FreezeK + 7, 0>>}
USamples == {<<FreezeK - 3, 0>>, TFreezeMinus, TFreeze, TFreezePlus,
             <<FreezeK + 7, 0>>}

\* u0->Data()->HasComponent("boundary_face"): the primary variable is required
\* with a boundary_face component
HasBoundaryFace == TRUE
PredKinds == {"cell", "boundary_face"}
PredEntSeqs == UNION {[1..n -> [kind : PredKinds, u0 : U0Samples]] : n \in 0..MaxEnt}

\* one pass of either loop over an entry: the entry's new value and whether
\* the loop set modified
Snap(u0v, uv) ==
  IF TLt(TFreeze, u0v) /\ TLt(uv, TFreeze)
    THEN [u |-> TFreezeMinus, modified |-> TRUE]
    ELSE IF TLt(u0v, TFreeze) /\ TLt(TFreeze, uv)
      THEN [u |-> TFreezePlus, modified |-> TRUE]
      ELSE [u |-> uv, modified |-> FALSE]

\* the entries the two loops visit: the cells, and the boundary faces when u0
\* has that component
Visited(ents) ==
  {i \in DOMAIN ents :
     ents[i].kind = "cell" \/ (ents[i].kind = "boundary_face" /\ HasBoundaryFace)}

RECURSIVE CellValues(_, _)
CellValues(ents, u) ==
  IF ents = <<>> THEN <<>>
  ELSE (IF Head(ents).kind = "cell" THEN <<Head(u)>> ELSE <<>>)
       \o CellValues(Tail(ents), Tail(u))

\* CalculateConsistentFaces(u): the face values, a function of the cell values
\* of u (with the conductivity and the boundary conditions as they are); they
\* are written as the cell values they were derived from.
CalculateConsistentFaces(cellvals) == [consistent |-> TRUE, cells |-> cellvals]
PredictedFaces == [consistent |-> FALSE, cells |-> <<>>]

\* ModifyPredictor(h, u0, u): the new u, its face component and the flag
ModifyPredictor(freezing, faces, ents, u, uf) ==
  LET u1 == IF freezing
              THEN [i \in DOMAIN u |->
                      IF i \in Visited(ents) THEN Snap(ents[i].u0, u[i]).u ELSE u[i]]
              ELSE u
      m1 == freezing /\ \E i \in Visited(ents) : Snap(ents[i].u0, u[i]).modified
  IN IF faces
       THEN [u |-> u1, face |-> CalculateConsistentFaces(CellValues(ents, u1)),
             modified |-> TRUE]
       ELSE [u |-> u1, face |-> uf, modified |-> m1]

ModifyPredictorCall ==
  /\ UNCHANGED notPred
  /\ Len(pred_ret) < MaxPredCalls
  /\ LET r == ModifyPredictor(modify_predictor_for_freezing_,
                              modify_predictor_with_consistent_faces_,
                              pred_ents, pred_u, pred_u_face) IN
       /\ pred_u' = r.u
       /\ pred_u_face' = r.face
       /\ pred_ret' = Append(pred_ret, r.modified)
  /\ pred_u_in' = [u |-> pred_u, face |-> pred_u_face]
  /\ UNCHANGED <<modify_predictor_for_freezing_,
                 modify_predictor_with_consistent_faces_, pred_ents>>

\* ------------------------------------------------------------------------
\* EnergyBase::ModifyCorrection (temperatures in whole kelvin)
\* ------------------------------------------------------------------------
\* the samples the inputs are drawn from
TLimitSamples == {0 - 1, 2}         \* -1.: no limit (the default)
DuCellSamples == {0, 3}
DuBfSamples == {0, 0 - 3}
BcValueSamples == {0, 2}
CorrTc == [c \in Cells |-> 270]     \* T_c
CorrTbf == 271                      \* T_bf
CorrAcc == 2                        \* matrices_shadow[f](0,0)
CorrFaceArea == 1                   \* mesh_->face_area(f)

\* a boundary face: its diffusion marker bc_markers()[f], its advection marker
\* bc_adv_->bc_model()[f], its value bc_values()[f] and its inner cell
BoundaryFaces ==
  [marker : {"OPERATOR_BC_NEUMANN", "OPERATOR_BC_DIRICHLET"},
   adv : {"OPERATOR_BC_DIRICHLET", "OPERATOR_BC_NEUMANN"},
   bc_value : BcValueSamples,
   cell : Cells]
BfSeqs == UNION {[1..n -> BoundaryFaces] : n \in 0..MaxBf}

DiffusiveFluxBC(bf) ==
  bf.marker = "OPERATOR_BC_NEUMANN" /\ bf.adv = "OPERATOR_BC_DIRICHLET"

\* the loop over the boundary faces: dT_bf of each face with a Neumann
\* diffusion marker and a Dirichlet advection marker is recomputed
RewriteBoundaryFaces(bfs, du) ==
  IF HasBoundaryFace
    THEN [cell |-> du.cell,
          boundary_face |->
            [i \in DOMAIN bfs |->
               IF DiffusiveFluxBC(bfs[i])
                 THEN LET c == bfs[i].cell
                          T_bf_val ==
                            (CorrAcc * (CorrTc[c] - du.cell[c])
                               - bfs[i].bc_value * CorrFaceArea) \div CorrAcc
                      IN CorrTbf - T_bf_val
                 ELSE du.boundary_face[i]]]
    ELSE du

Abs(x) == IF x < 0 THEN 0 - x ELSE x
\* (du > 0) - (du < 0)
Sign(x) == (IF x > 0 THEN 1 ELSE 0) - (IF x < 0 THEN 1 ELSE 0)
Limited(x, limit) == Abs(x) > limit
\* the cut without the sign of the entry
LimitLosesSign(x, limit) == IF Limited(x, limit) THEN limit ELSE x
Limit(x, limit) == IF Limited(x, limit) THEN Sign(x) * limit ELSE x

\* the loop over the components of du: every entry beyond T_limit_ is cut to
\* T_limit_ and counted
LimitAll(du, limit) ==
  [du |-> [cell |-> [c \in Cells |-> Limit(du.cell[c], limit)],
           boundary_face |->
             [i \in DOMAIN du.boundary_face |-> Limit(du.boundary_face[i], limit)]],
   my_limited |->
     Cardinality({c \in Cells : Limited(du.cell[c], limit)})
     + Cardinality({i \in DOMAIN du.boundary_face :
                      Limited(du.boundary_face[i], limit)})]

\* get_comm()->SumAll(&my_limited, &n_limited, 1)
SumAll(my, others) == my + others

\* the return with a count above one demanded
CorrectionResultOffByOne(n_limited) ==
  IF n_limited > 1 THEN "CORRECTION_MODIFIED" ELSE "CORRECTION_NOT_MODIFIED"

\* if (n_limited > 0) return CORRECTION_MODIFIED; return CORRECTION_NOT_MODIFIED
CorrectionResult(n_limited) ==
  IF n_limited > 0 THEN "CORRECTION_MODIFIED" ELSE "CORRECTION_NOT_MODIFIED"

\* ModifyCorrection(h, res, u, du): the new du and the value returned
ModifyCorrection(limit, bfs, du, others) ==
  LET du1 == RewriteBoundaryFaces(bfs, du)
      lim == LimitAll(du1, limit)
      n_limited == IF limit > 0 THEN SumAll(lim.my_limited, others) ELSE 0
  IN [du |-> IF limit > 0 THEN lim.du ELSE du1,
      ret |-> CorrectionResult(n_limited)]

ModifyCorrectionCall ==
  /\ UNCHANGED notCorr
  /\ corr_ret = "none"
  /\ LET r == ModifyCorrection(T_limit_, corr_bfs, corr_du, other_limited) IN
       /\ corr_du' = r.du
       /\ corr_ret' = r.ret
  /\ UNCHANGED <<T_limit_, corr_bfs, corr_du_in, other_limited>>

\* ------------------------------------------------------------------------
\* The evaluator graph: EnsureCompatibility
\* ------------------------------------------------------------------------
\* the keys, numbered in the order std::set<Key> iterates them
EvKeys == {1, 2, 3, 4}
\* the evaluator the PK calls EnsureCompatibility on
RootKeys == {1}
\* the dependencies a configuration may declare
CandidateEdges == {<<1, 1>>, <<1, 2>>, <<1, 3>>, <<2, 3>>, <<3, 2>>, <<2, 4>>}
DepsOf(E) == [k \in EvKeys |-> {e[2] : e \in {x \in E : x[1] = k}}]
Graphs == {DepsOf(E) : E \in SUBSET CandidateEdges}

\* CompositeVectorSpace: the mesh (set or Teuchos::null) and the components;
\* every component here has width 1 and the entity kind of its name
NoLayout == [mesh |-> FALSE, comps |-> {}]
CellLayout == [mesh |-> TRUE, comps |-> {"cell"}]
CellBfLayout == [mesh |-> TRUE, comps |-> {"cell", "boundary_face"}]
FieldLayouts == {NoLayout, CellLayout, CellBfLayout}

\* CompositeVectorSpace::Update(other): the mesh of other if this has none,
\* and the union of the components
FacUpdate(fac, other) ==
  [mesh |-> fac.mesh \/ other.mesh, comps |-> fac.comps \cup other.comps]
\* CompositeVectorSpace::AddComponent(name, kind, 1)
AddComponent(fac, name) == [fac EXCEPT !.comps = @ \cup {name}]

\* dep_fac: the mesh of my_fac, one cell component of width 1, ghosted
DepFac == [mesh |-> TRUE, comps |-> {"cell"}]

\* the keys of a KeySet in iteration order
RECURSIVE SortedKeys(_)
SortedKeys(S) ==
  IF S = {} THEN <<>>
  ELSE LET mn == CHOOSE x \in S : \A y \in S : x <= y
       IN <<mn>> \o SortedKeys(S \ {mn})

\* the loop with boundary_face added to every dependency
RECURSIVE OverlandRequireBfAll(_, _, _, _)
OverlandRequireBfAll(fl, my, keys, mobile) ==
  IF keys = <<>> THEN [fld |-> fl, thrown |-> FALSE]
  ELSE LET key == Head(keys) IN
    IF key = my THEN [fld |-> fl, thrown |-> TRUE]
    ELSE LET fac1 == FacUpdate(fl[key], DepFac)
             fac2 == IF "boundary_face" \in fl[my].comps
                       THEN AddComponent(fac1, "boundary_face") ELSE fac1
         IN OverlandRequireBfAll([fl EXCEPT ![key] = fac2], my, Tail(keys), mobile)

\* OverlandConductivitySubgridEvaluator::EnsureCompatibility, the loop over
\* the dependencies: a dependency equal to my_key_ throws; the others are
\* required with dep_fac, the mobile depth with boundary_face as well when my
\* own field has that component
RECURSIVE OverlandRequire(_, _, _, _)
OverlandRequire(fl, my, keys, mobile) ==
  IF keys = <<>> THEN [fld |-> fl, thrown |-> FALSE]
  ELSE LET key == Head(keys) IN
    IF key = my THEN [fld |-> fl, thrown |-> TRUE]
    ELSE LET fac1 == FacUpdate(fl[key], DepFac)
             fac2 == IF key = mobile /\ "boundary_face" \in fl[my].comps
                       THEN AddComponent(fac1, "boundary_face") ELSE fac1
         IN OverlandRequire([fl EXCEPT ![key] = fac2], my, Tail(keys), mobile)

EcTop == ec_stack[Len(ec_stack)]
EcFrame(key) == [key |-> key, entered |-> FALSE, todo |-> <<>>]
EcEntered(todo) ==
  [ec_stack EXCEPT ![Len(ec_stack)] = [@ EXCEPT !.entered = TRUE, !.todo = todo]]

\* the PK calls EnsureCompatibility on the evaluator of its field
EcCall ==
  /\ UNCHANGED notEC
  /\ ec_status \in {"idle", "returned"}
  /\ Len(fld_log) <= MaxEcCalls
  /\ \E root \in RootKeys : ec_stack' = <<EcFrame(root)>>
  /\ ec_status' = "running"
  /\ ec_visits' = [k \in EvKeys |-> 0]
  /\ UNCHANGED <<ev_kind, ev_deps, ev_mobile, fld, fld_log>>

\* OverlandConductivitySubgridEvaluator::EnsureCompatibility up to the
\* recursion: with no mesh on my field it defers; otherwise the loop over the
\* dependencies runs and may throw
EcEnterOverland ==
  /\ UNCHANGED notEC
  /\ ec_status = "running" /\ ec_stack # <<>>
  /\ ~EcTop.entered /\ ev_kind[EcTop.key] = "overland"
  /\ LET my == EcTop.key
         keys == SortedKeys(ev_deps[my])
         r == OverlandRequire(fld, my, keys, ev_mobile[my])
     IN /\ ec_visits' = [ec_visits EXCEPT ![my] = @ + 1]
        /\ IF ~fld[my].mesh
             THEN /\ ec_stack' = EcEntered(<<>>)
                  /\ UNCHANGED <<fld, ec_status>>
             ELSE IF r.thrown
               THEN /\ fld' = r.fld
                    /\ ec_stack' = <<>>
                    /\ ec_status' = "error"
               ELSE /\ fld' = r.fld
                    /\ ec_stack' = EcEntered(keys)
                    /\ UNCHANGED ec_status
  /\ UNCHANGED <<ev_kind, ev_deps, ev_mobile, fld_log>>

\* WaterTableColumnsEvaluator::EnsureCompatibility up to the recursion
EcEnterWaterTable ==
  /\ UNCHANGED notEC
  /\ ec_status = "running" /\ ec_stack # <<>>
  /\ ~EcTop.entered /\ ev_kind[EcTop.key] = "water_table"
  /\ LET my == EcTop.key IN
       /\ ec_visits' = [ec_visits EXCEPT ![my] = @ + 1]
       /\ ec_stack' = EcEntered(IF fld[my].mesh THEN SortedKeys(ev_deps[my])
                                ELSE <<>>)
  /\ UNCHANGED <<ev_kind, ev_deps, ev_mobile, fld, ec_status, fld_log>>

\* an evaluator without dependencies: nothing to propagate
EcEnterLeaf ==
  /\ UNCHANGED notEC
  /\ ec_status = "running" /\ ec_stack # <<>>
  /\ ~EcTop.entered /\ ev_kind[EcTop.key] = "leaf"
  /\ ec_visits' = [ec_visits EXCEPT ![EcTop.key] = @ + 1]
  /\ ec_stack' = EcEntered(<<>>)
  /\ UNCHANGED <<ev_kind, ev_deps, ev_mobile, fld, ec_status, fld_log>>

\* S->RequireFieldEvaluator(key)->EnsureCompatibility(S), next dependency
EcRecurse ==
  /\ UNCHANGED notEC
  /\ ec_status = "running" /\ ec_stack # <<>>
  /\ EcTop.entered /\ EcTop.todo # <<>>
  /\ Len(ec_stack) < MaxEcDepth
  /\ ec_stack' = Append([ec_stack EXCEPT ![Len(ec_stack)] =
                           [@ EXCEPT !.todo = Tail(@)]],
                        EcFrame(Head(EcTop.todo)))
  /\ UNCHANGED <<ev_kind, ev_deps, ev_mobile, fld, ec_status, ec_visits, fld_log>>

\* the end of an EnsureCompatibility call
EcReturn ==
  /\ UNCHANGED notEC
  /\ ec_status = "running" /\ ec_stack # <<>>
  /\ EcTop.entered /\ EcTop.todo = <<>>
  /\ ec_stack' = SubSeq(ec_stack, 1, Len(ec_stack) - 1)
  /\ IF Len(ec_stack) = 1
       THEN /\ ec_status' = "returned"
            /\ fld_log' = Append(fld_log, fld)
       ELSE UNCHANGED <<ec_status, fld_log>>
  /\ UNCHANGED <<ev_kind, ev_deps, ev_mobile, fld, ec_visits>>

\* ------------------------------------------------------------------------
\* HasFieldChanged: change detection over the dependency graph
\* ------------------------------------------------------------------------
\* the keys: 1 is an independent field, 2 and 3 are computed from it
HfKeys == {1, 2, 3}
KeyName == <<"A", "B", "C">>
\* the requesters outside the graph (PK names)
PkNames == {"pk1", "pk2"}
Requesters == PkNames \cup {KeyName[k] : k \in HfKeys}
HfGraphs == {<<{}, {1}, {2}>>, <<{}, {1}, {1, 2}>>}

\* a field evaluator that is not computed from others: true for a requester
\* that has not seen the field since it last changed
LeafHasFieldChanged(st, k, request) ==
  [st |-> [st EXCEPT !.requests[k] = @ \cup {request}],
   ret |-> request \notin st.requests[k]]

\* UpdateField_: EvaluateField_ on my field
UpdateField_(st, k) == [st EXCEPT !.evals[k] = @ + 1]

\* the override with the test of updated_once_ inverted
WaterTableInverted(st1, changed, k) ==
  IF st1.once[k]
    THEN [st |-> [UpdateField_(st1, k) EXCEPT !.once[k] = TRUE], ret |-> TRUE]
    ELSE [st |-> st1, ret |-> changed]

\* WaterTableColumnsEvaluator::HasFieldChanged after the call of the base
\* class: the first time, the field is updated and true is returned
WaterTableOverride(st1, changed, k) ==
  IF ~st1.once[k]
    THEN [st |-> [UpdateField_(st1, k) EXCEPT !.once[k] = TRUE], ret |-> TRUE]
    ELSE [st |-> st1, ret |-> changed]

\* SecondaryVariableFieldEvaluator::HasFieldChanged: every dependency is asked
\* with my key as the requester; if one changed the field is updated and the
\* requests are cleared; otherwise a requester not yet seen gets true
RECURSIVE HasFieldChanged(_, _, _, _, _)
RECURSIVE AskDependencies(_, _, _, _, _, _)
AskDependencies(kind, deps, st, k, keys, changed) ==
  IF keys = <<>> THEN [st |-> st, ret |-> changed]
  ELSE LET r == HasFieldChanged(kind, deps, st, Head(keys), KeyName[k])
       IN AskDependencies(kind, deps, r.st, k, Tail(keys), changed \/ r.ret)
HasFieldChanged(kind, deps, st, k, request) ==
  IF kind[k] = "leaf" THEN LeafHasFieldChanged(st, k, request)
  ELSE
    LET asked == AskDependencies(kind, deps, st, k, SortedKeys(deps[k]), FALSE)
        base ==
          IF asked.ret
            THEN [st |-> [UpdateField_(asked.st, k) EXCEPT !.requests[k] = {request}],
                  ret |-> TRUE]
            ELSE [st |-> [asked.st EXCEPT !.requests[k] = @ \cup {request}],
                  ret |-> request \notin asked.st.requests[k]]
    IN IF kind[k] = "water_table"
         THEN WaterTableOverride(base.st, base.ret, k)
         ELSE base

HfState == [requests |-> hf_requests, once |-> hf_once, evals |-> hf_evals]

\* the keys HasFieldChanged(k, ...) reaches: k and its transitive dependencies
RECURSIVE HfClosure(_, _)
HfClosure(S, n) ==
  IF n = 0 THEN S
  ELSE HfClosure(S \cup UNION {hf_deps[k] : k \in S}, n - 1)
HfReached(k) == HfClosure({k}, Cardinality(HfKeys))
\* the (key, requester) pairs a query observes: the query itself and the
\* queries the evaluators make of their dependencies
HfObserved(k, request) ==
  {<<k, request>>} \cup
    UNION {{<<d, KeyName[e]>> : d \in hf_deps[e]} : e \in HfReached(k)}

\* a PK asks whether a field changed:
\* S->GetFieldEvaluator(key)->HasFieldChanged(S, name_)
HfQuery(k, request) ==
  /\ UNCHANGED notHF
  /\ hf_ops < MaxHfOps
  /\ LET r == HasFieldChanged(hf_kind, hf_deps, HfState, k, request)
         evaluated == {e \in HfReached(k) : hf_kind[e] # "leaf" /\ hf_stale[e]}
     IN /\ hf_requests' = r.st.requests
        /\ hf_once' = r.st.once
        /\ hf_evals' = r.st.evals
        /\ hf_due' = [e \in HfKeys |-> IF e \in evaluated THEN hf_due[e] + 1
                                       ELSE hf_due[e]]
        /\ hf_stale' = [e \in HfKeys |-> hf_stale[e] /\ e \notin evaluated]
        /\ hf_last' = [key |-> k, request |-> request, ret |-> r.ret,
                       due |-> hf_pending[<<k, request>>]]
        /\ hf_pending' = [x \in DOMAIN hf_pending |->
                            hf_pending[x] /\ x \notin HfObserved(k, request)]
  /\ hf_ops' = hf_ops + 1
  /\ UNCHANGED <<hf_kind, hf_deps>>

\* the backing value of an independent field changes: its requests are
\* cleared (SetFieldAsChanged)
HfChange(k) ==
  /\ UNCHANGED notHF
  /\ hf_ops < MaxHfOps
  /\ hf_kind[k] = "leaf"
  /\ hf_requests' = [hf_requests EXCEPT ![k] = {}]
  /\ hf_stale' = [e \in HfKeys |-> hf_stale[e] \/ k \in HfReached(e)]
  /\ hf_pending' = [x \in DOMAIN hf_pending |->
                      hf_pending[x] \/ k \in HfReached(x[1])]
  /\ hf_ops' = hf_ops + 1
  /\ UNCHANGED <<hf_kind, hf_deps, hf_once, hf_evals, hf_due, hf_last>>

\* ------------------------------------------------------------------------
\* EvaluateField_ and EvaluateFieldPartialDerivative_: the pointwise functions
\* ------------------------------------------------------------------------
\* doubles are modelled as exact fractions n/d with d > 0, in lowest terms
RECURSIVE Gcd(_, _)
Gcd(a, b) == IF b = 0 THEN a ELSE Gcd(b, a % b)
IntAbs(a) == IF a < 0 THEN -a ELSE a
R(n, d) ==
  LET g == Gcd(IntAbs(n), d)
  IN IF n = 0 THEN [n |-> 0, d |-> 1] ELSE [n |-> n \div g, d |-> d \div g]
RAdd(a, b) == R(a.n * b.d + b.n * a.d, a.d * b.d)
RSub(a, b) == R(a.n * b.d - b.n * a.d, a.d * b.d)
RMul(a, b) == R(a.n * b.n, a.d * b.d)
RDiv(a, b) == IF b.n < 0 THEN R(-(a.n * b.d), a.d * (-b.n))
              ELSE R(a.n * b.d, a.d * b.n)
RAbs(a) == [n |-> IntAbs(a.n), d |-> a.d]
RGt(a, b) == a.n * b.d > b.n * a.d
\* std::pow with a whole exponent
RECURSIVE RPow(_, _)
RPow(a, e) == IF e = 0 THEN R(1, 1) ELSE RMul(a, RPow(a, e - 1))

PfCells == {1, 2}
Patm == 101325
PoreCompressibility == R(1, 8)
NoWaterTable == -100

OverlandDeps == {"mobile_depth", "slope", "coef", "dens", "frac_cond", "drag_exp"}
LiquidIceDeps == {"phi", "phi0", "sl", "nl", "ul", "si", "ni", "ui", "rho_r", "ur", "cv"}
WaterTableDeps == {"temp", "sat"}
PorosityDeps == {"base_porosity", "pressure"}
PfKinds == {"overland", "liquid_ice", "water_table", "porosity"}
DepsOfKind(kind) ==
  CASE kind = "overland" -> OverlandDeps
    [] kind = "liquid_ice" -> LiquidIceDeps
    [] kind = "water_table" -> WaterTableDeps
    [] OTHER -> PorosityDeps

\* the two values a dependency takes in the sample fields
ValuePair(q) ==
  CASE q \in {"slope", "phi", "phi0", "sl", "si", "base_porosity"} -> <<R(1, 4), R(1, 2)>>
    [] q \in {"coef", "frac_cond", "sat"} -> <<R(1, 2), R(1, 1)>>
    [] q = "pressure" -> <<R(Patm - 1, 1), R(Patm + 1, 1)>>
    [] q = "temp" -> <<R(272, 1), R(274, 1)>>
    [] q = "drag_exp" -> <<R(0, 1), R(1, 1)>>
    [] OTHER -> <<R(1, 1), R(2, 1)>>
OtherValue(q, v) == IF v = ValuePair(q)[1] THEN ValuePair(q)[2] ELSE ValuePair(q)[1]
Rising(q) == <<ValuePair(q)[1], ValuePair(q)[2]>>
Falling(q) == <<ValuePair(q)[2], ValuePair(q)[1]>>
Level(q, i) == <<ValuePair(q)[i], ValuePair(q)[i]>>
Profiles(kind, q) ==
  IF kind = "water_table" THEN {Rising(q), Falling(q), Level(q, 1), Level(q, 2)}
  ELSE {Rising(q), Falling(q)}
Inputs(kind) ==
  IF kind = "liquid_ice"
    THEN {[q \in LiquidIceDeps |-> Rising(q)], [q \in LiquidIceDeps |-> Falling(q)]}
    ELSE {f \in [DepsOfKind(kind) -> UNION {Profiles(kind, q) : q \in DepsOfKind(kind)}] :
            \A q \in DepsOfKind(kind) : f[q] \in Profiles(kind, q)}
Perturbed(x, q, c) == [x EXCEPT ![q][c] = OtherValue(q, @)]

\* OverlandConductivityModel is abstract; this instance is a power law in the
\* depth, divided by the coefficient and the slope
Conductivity(depth, slope, coef) == RDiv(RMul(depth, depth), RMul(coef, slope))
DConductivityDDepth(depth, slope, coef) ==
  RDiv(RMul(R(2, 1), depth), RMul(coef, slope))

\* OverlandConductivitySubgridEvaluator::EvaluateField_
OverlandEvaluateField_(x) ==
  [i \in PfCells |->
     RMul(Conductivity(x["mobile_depth"][i], x["slope"][i], x["coef"][i]),
          RMul(x["dens"][i], RPow(x["frac_cond"][i], x["drag_exp"][i].n + 1)))]

\* OverlandConductivitySubgridEvaluator::EvaluateFieldPartialDerivative_
OverlandEvaluateFieldPartialDerivative_(x, wrt_key) ==
  [i \in PfCells |->
     CASE wrt_key = "mobile_depth" ->
            RMul(DConductivityDDepth(x["mobile_depth"][i], x["slope"][i], x["coef"][i]),
                 RMul(x["dens"][i], RPow(x["frac_cond"][i], x["drag_exp"][i].n + 1)))
       [] wrt_key = "dens" ->
            RMul(Conductivity(x["mobile_depth"][i], x["slope"][i], x["coef"][i]),
                 RPow(x["frac_cond"][i], x["drag_exp"][i].n + 1))
       [] wrt_key = "frac_cond" ->
            RMul(Conductivity(x["mobile_depth"][i], x["slope"][i], x["coef"][i]),
                 RMul(x["dens"][i],
                      RMul(RAdd(x["drag_exp"][i], R(1, 1)),
                           RPow(x["frac_cond"][i], x["drag_exp"][i].n))))
       [] OTHER -> R(0, 1)]

\* LiquidIceEnergyModel::Energy
Energy(phi, phi0, sl, nl, ul, si, ni, ui, rho_r, ur, cv) ==
  RMul(RAdd(RMul(phi, RAdd(RMul(sl, RMul(nl, ul)), RMul(si, RMul(ni, ui)))),
            RMul(RSub(R(1, 1), phi0), RMul(rho_r, ur))),
       cv)

\* LiquidIceEnergyEvaluator::EvaluateField_
LiquidIceEvaluateField_(x) ==
  [i \in PfCells |->
     Energy(x["phi"][i], x["phi0"][i], x["sl"][i], x["nl"][i], x["ul"][i],
            x["si"][i], x["ni"][i], x["ui"][i], x["rho_r"][i], x["ur"][i],
            x["cv"][i])]

\* the faces of a column, counted from the top: face i lies i - 1 below the top
FaceCentroidZ(i) == R(-(i - 1), 1)

\* WaterTableColumnsEvaluator::EvaluateField_: the first cell of the column
\* with saturation 1.0 gives the one value of the field
WaterTableEvaluateField_(x) ==
  LET wet == {i \in PfCells : x["sat"][i] = R(1, 1)}
      first == CHOOSE i \in wet : \A j \in wet : i <= j
  IN <<IF wet # {} THEN RSub(FaceCentroidZ(1), FaceCentroidZ(first))
       ELSE R(NoWaterTable, 1)>>

\* CompressiblePorosityModel
Porosity(base_poro, pres, patm) ==
  IF RGt(pres, patm)
    THEN RAdd(RMul(RSub(pres, patm), PoreCompressibility), base_poro)
    ELSE base_poro
DPorosityDPressure(base_poro, pres, patm) ==
  IF RGt(pres, patm) THEN PoreCompressibility ELSE R(0, 1)
DPorosityDBasePorosity(base_poro, pres, patm) == R(1, 1)

PorosityEvaluateField_(x) ==
  [i \in PfCells |-> Porosity(x["base_porosity"][i], x["pressure"][i], R(Patm, 1))]
PorosityEvaluateFieldPartialDerivative_(x, wrt_key) ==
  [i \in PfCells |->
     IF wrt_key = "pressure"
       THEN DPorosityDPressure(x["base_porosity"][i], x["pressure"][i], R(Patm, 1))
       ELSE DPorosityDBasePorosity(x["base_porosity"][i], x["pressure"][i], R(Patm, 1))]

EvaluateField_(kind, x) ==
  CASE kind = "overland" -> OverlandEvaluateField_(x)
    [] kind = "liquid_ice" -> LiquidIceEvaluateField_(x)
    [] kind = "water_table" -> WaterTableEvaluateField_(x)
    [] OTHER -> PorosityEvaluateField_(x)

\* the finite-difference quotient of the value under a perturbation of one
\* dependency at every entity (central; the drag exponent moves by whole steps)
FdStep(q) == IF q = "drag_exp" THEN R(1, 1) ELSE R(1, 8)
Shifted(x, q, h) == [x EXCEPT ![q] = [i \in PfCells |-> RAdd(x[q][i], h)]]
FiniteDifference(kind, x, q) ==
  LET hi == EvaluateField_(kind, Shifted(x, q, FdStep(q)))
      lo == EvaluateField_(kind, Shifted(x, q, RSub(R(0, 1), FdStep(q))))
  IN [i \in PfCells |-> RDiv(RSub(hi[i], lo[i]), RMul(R(2, 1), FdStep(q)))]

PfResult(op, wrt, a, b, fd) == [op |-> op, wrt |-> wrt, a |-> a, b |-> b, fd |-> fd]
PfKeep == UNCHANGED <<pf_kind, pf_x, pf_y, pf_dep, pf_cell>>

EvalOverland ==
  /\ UNCHANGED notPF
  /\ pf_kind = "overland"
  /\ pf_res' = PfResult("value", "none", OverlandEvaluateField_(pf_x),
                        OverlandEvaluateField_(pf_y), <<>>)
  /\ PfKeep

PartialOverland(wrt_key) ==
  /\ UNCHANGED notPF
  /\ pf_kind = "overland"
  /\ pf_res' = PfResult("partial", wrt_key,
                        OverlandEvaluateFieldPartialDerivative_(pf_x, wrt_key),
                        OverlandEvaluateFieldPartialDerivative_(pf_y, wrt_key),
                        FiniteDifference("overland", pf_x, wrt_key))
  /\ PfKeep

EvalLiquidIce ==
  /\ UNCHANGED notPF
  /\ pf_kind = "liquid_ice"
  /\ pf_res' = PfResult("value", "none", LiquidIceEvaluateField_(pf_x),
                        LiquidIceEvaluateField_(pf_y), <<>>)
  /\ PfKeep

EvalWaterTable ==
  /\ UNCHANGED notPF
  /\ pf_kind = "water_table"
  /\ pf_res' = PfResult("value", "none", WaterTableEvaluateField_(pf_x),
                        WaterTableEvaluateField_(pf_y), <<>>)
  /\ PfKeep

EvalPorosity ==
  /\ UNCHANGED notPF
  /\ pf_kind = "porosity"
  /\ pf_res' = PfResult("value", "none", PorosityEvaluateField_(pf_x),
                        PorosityEvaluateField_(pf_y), <<>>)
  /\ PfKeep

PartialPorosity(wrt_key) ==
  /\ UNCHANGED notPF
  /\ pf_kind = "porosity"
  /\ pf_res' = PfResult("partial", wrt_key,
                        PorosityEvaluateFieldPartialDerivative_(pf_x, wrt_key),
                        PorosityEvaluateFieldPartialDerivative_(pf_y, wrt_key),
                        FiniteDifference("porosity", pf_x, wrt_key))
  /\ PfKeep

\* ------------------------------------------------------------------------
\* FATES_PK: AdvanceStep and CommitStep under the driver
\* ------------------------------------------------------------------------
\* times are whole multiples of a unit far above the 1e-12 * t_new of the
\* schedule tests, which are then tests of equality
PhotoSteps == {1, 2}
SiteDymSteps == {2, 4}

Min(a, b) == IF a < b THEN a ELSE b

\* get_dt without the two periods
get_dt_uncapped(tp, td, dtp, dtd, time) ==
  Min(td + dtd - time, tp + dtp - time)

\* FATES_PK::get_dt
get_dt(tp, td, dtp, dtd, time) ==
  Min(td + dtd - time, Min(Min(tp + dtp - time, dtp), dtd))

\* the members and the external model after AdvanceStep(t_old, t_new)
FatesState(tp, td, cl) == [tp |-> tp, td |-> td, clump |-> cl]

\* FATES_PK::AdvanceStep: photosynthesis and the vegetation dynamics run when
\* t_new reaches their next time; the fluxes are accumulated over
\* dt_photosynthesis_ and the times of the last runs are set to t_new
AdvanceStepEffect(st, dtp, dtd, t_old, t_new) ==
  LET run_photo == t_new = st.tp + dtp
      run_veg_dym == t_new = st.td + dtd
  IN FatesState(IF run_photo THEN t_new ELSE st.tp,
                IF run_veg_dym THEN t_new ELSE st.td,
                [acc |-> IF run_photo THEN st.clump.acc + dtp ELSE st.clump.acc,
                 dyn |-> IF run_veg_dym THEN st.clump.dyn + 1 ELSE st.clump.dyn])

\* calculate_biomass reads the external model
calculate_biomass(cl) == cl.dyn

FatesNow == FatesState(t_photosynthesis_, t_site_dym_, clump_)
FatesConfig == UNCHANGED <<dt_photosynthesis_, dt_site_dym_>>

\* the driver attempts a step of at most get_dt(); AdvanceStep returns false
FatesAdvanceStep(t_new) ==
  /\ UNCHANGED notFT
  /\ ft_phase = "idle"
  /\ t_new > S_time /\ t_new <= MaxFatesTime
  /\ t_new - S_time <= get_dt(t_photosynthesis_, t_site_dym_,
                              dt_photosynthesis_, dt_site_dym_, S_time)
  /\ LET st == AdvanceStepEffect(FatesNow, dt_photosynthesis_, dt_site_dym_,
                                 S_time, t_new)
     IN /\ t_photosynthesis_' = st.tp
        /\ t_site_dym_' = st.td
        /\ clump_' = st.clump
  /\ ft_phase' = "advanced"
  /\ ft_tnew' = t_new
  /\ FatesConfig
  /\ UNCHANGED <<biomass, S_time, ft_ref, ft_rejected>>

\* the driver accepts the attempt: FATES_PK::CommitStep, and the state moves
\* to t_new
FatesCommitStep ==
  /\ UNCHANGED notFT
  /\ ft_phase = "advanced"
  /\ biomass' = calculate_biomass(clump_)
  /\ S_time' = ft_tnew
  /\ ft_ref' = AdvanceStepEffect(ft_ref, dt_photosynthesis_, dt_site_dym_,
                                 S_time, ft_tnew)
  /\ ft_phase' = "idle"
  /\ FatesConfig
  /\ UNCHANGED <<t_photosynthesis_, t_site_dym_, clump_, ft_tnew, ft_rejected>>

\* the driver rejects the attempt (another PK of the coupler failed, or the
\* state was not admissible): no CommitStep, the step is attempted again
FatesReject ==
  /\ UNCHANGED notFT
  /\ ft_phase = "advanced"
  /\ ft_rejected < MaxRejected
  /\ ft_rejected' = ft_rejected + 1
  /\ ft_phase' = "idle"
  /\ FatesConfig
  /\ UNCHANGED <<t_photosynthesis_, t_site_dym_, clump_, biomass, S_time,
                 ft_tnew, ft_ref>>

\* ------------------------------------------------------------------------
\* Setup of FATES_PK and EnergyBase, and the fields they read afterwards
\* ------------------------------------------------------------------------
\* a key is a domain and a variable name
getKey(domain, name) == [domain |-> domain, var |-> name]
\* a Key never assigned
EmptyKey == getKey("domain", "")
getDomain(key) == key.domain
\* the key spelled "surface_temperature" in the code: a name on the surface
\* domain when the delimiter is '_', a name on the default domain otherwise
SurfaceTemperatureLiteral(delim) ==
  IF delim = "_" THEN getKey("surface", "temperature")
  ELSE getKey("domain", "surface_temperature")

FieldItem(key) == [kind |-> "field", key |-> key]
MeshItem(domain) == [kind |-> "mesh", key |-> getKey(domain, "")]
ScalarItem(name) == [kind |-> "scalar", key |-> getKey("domain", name)]

HasField(fields, key) == \E f \in fields : f.key = key

\* S->RequireField(key, owner)->SetMesh(mesh)->AddComponent(...): a new field,
\* or more components on the field of that key
RequireField(fields, key, owner, mesh, comps) ==
  IF HasField(fields, key)
    THEN {IF f.key = key
            THEN [f EXCEPT !.mesh = mesh, !.comps = @ \cup comps]
            ELSE f : f \in fields}
    ELSE fields \cup {[key |-> key, owner |-> owner, mesh |-> mesh, comps |-> comps]}

\* the fields FATES_PK requires unless State has them already
FatesMetKeys ==
  {getKey("surface", n) : n \in {"precipitation_rain", "air_temperature",
     "relative_humidity", "wind", "co2a", "longwave_radiation",
     "incident_radiation"}}
FatesSoilKeys ==
  {getKey("domain", n) : n \in {"porosity", "temperature", "saturation_liquid",
     "suction_head"}}
salinity_key_ == getKey("domain", "total_component_concentration")
FatesKey == getKey("surface", "fates")

\* fields of other PKs that may be in State before Setup
OtherFields ==
  {[key |-> salinity_key_, owner |-> "state", mesh |-> "domain", comps |-> {"cell"}],
   [key |-> getKey("domain", "saturation_liquid"), owner |-> "state",
    mesh |-> "domain", comps |-> {"cell"}]}

RECURSIVE RequireAll(_, _, _, _)
RequireAll(fields, keys, owner, mesh) ==
  IF keys = {} THEN fields
  ELSE LET k == CHOOSE x \in keys : TRUE
       IN RequireAll(RequireField(fields, k, owner, mesh, {"cell"}),
                     keys \ {k}, owner, mesh)

\* the keys FATES_PK::Setup looks up with HasField and requires when missing
FatesSetupKeys ==
  FatesMetKeys
    \cup (IF surface_only_ THEN {} ELSE FatesSoilKeys)
    \cup (IF ~surface_only_ /\ salinity_on_ THEN {salinity_key_} ELSE {})

SuKeep ==
  UNCHANGED <<su_pk, key_delim, has_param_files, surface_only_, salinity_on_,
              domain_, surface_coupling>>

\* FATES_PK::Setup
FatesSetup ==
  /\ UNCHANGED notSU
  /\ su_pk = "fates" /\ ~su_thrown /\ Len(su_log) < MaxSetups
  /\ IF ~has_param_files
       THEN /\ su_thrown' = TRUE
            /\ su_ensured' = su_ensured \cup {MeshItem("surface"), MeshItem("domain")}
            /\ UNCHANGED <<su_fields, su_evals, su_log>>
       ELSE LET missing == {k \in FatesSetupKeys : ~HasField(su_fields, k)}
                surf == RequireAll(RequireField(su_fields, FatesKey, "fates",
                                                "surface", {"cell"}),
                                   missing \cap FatesMetKeys, "state", "surface")
                all == RequireAll(surf, missing \ FatesMetKeys, "state", "domain")
            IN /\ su_fields' = all
               /\ su_evals' = su_evals \cup missing
               /\ su_ensured' = su_ensured
                    \cup {MeshItem("surface"), MeshItem("domain")}
                    \cup {FieldItem(k) : k \in FatesSetupKeys \cup {FatesKey}}
                    \cup {ScalarItem("atmospheric_pressure")}
               /\ su_log' = Append(su_log, <<all, su_evals \cup missing>>)
               /\ UNCHANGED su_thrown
  /\ su_reads' = {}
  /\ SuKeep
  /\ UNCHANGED <<ss_flux_key_, ss_primary_key_>>

\* FATES_PK::AdvanceStep: the meteorological fields are read at every step,
\* the soil fields State has when photosynthesis runs on a subsurface column
FatesAdvanceStepReads(run_photo) ==
  /\ UNCHANGED notSU
  /\ su_pk = "fates" /\ ~su_thrown /\ Len(su_log) > 1
  /\ su_reads' =
       {FieldItem(k) : k \in FatesMetKeys}
         \cup (IF run_photo /\ ~surface_only_
                 THEN {FieldItem(k) : k \in {x \in FatesSoilKeys \cup {salinity_key_} :
                                               HasField(su_fields, x)}}
                 ELSE {})
         \cup (IF run_photo THEN {ScalarItem("atmospheric_pressure")} ELSE {})
  /\ SuKeep
  /\ UNCHANGED <<ss_flux_key_, ss_primary_key_, su_fields, su_evals, su_ensured,
                 su_log, su_thrown>>

\* FATES_PK::CommitStep reads and writes the PK's own field
FatesCommitStepReads ==
  /\ UNCHANGED notSU
  /\ su_pk = "fates" /\ ~su_thrown /\ Len(su_log) > 1
  /\ su_reads' = {FieldItem(FatesKey)}
  /\ SuKeep
  /\ UNCHANGED <<ss_flux_key_, ss_primary_key_, su_fields, su_evals, su_ensured,
                 su_log, su_thrown>>

\* the surface domain of an EnergyBase PK
DomainSurf(domain) == IF domain = "domain" THEN "surface" ELSE "surface_" \o domain

EnergyOwnKeys ==
  {getKey(domain_, n) : n \in {"temperature", "upwind_thermal_conductivity",
     "diffusive_energy_flux", "advected_energy_flux"}}
EnergyEvalKeys ==
  {getKey(domain_, n) : n \in {"cell_volume", "enthalpy", "water_flux",
     "water_content"}}

\* EnergyBase::SetupEnergy_: the fields of the PK, then the coupling to a
\* surface, which throws when both couplings are asked for
EnergySetup ==
  /\ UNCHANGED notSU
  /\ su_pk = "energy" /\ ~su_thrown /\ Len(su_log) < MaxSetups
  /\ LET via_flux == surface_coupling \in {"flux", "both"}
         via_temp == surface_coupling \in {"temperature", "both"}
         flux_key == getKey(DomainSurf(domain_), "surface_subsurface_energy_flux")
         temp_key == getKey(DomainSurf(domain_), "temperature")
         f1 == RequireAll(su_fields, EnergyEvalKeys, "state", domain_)
         f2 == IF via_flux
                 THEN RequireField(f1, flux_key, "state", DomainSurf(domain_), {"cell"})
                 ELSE f1
         f3 == IF via_temp
                 THEN RequireField(f2, temp_key, "state", DomainSurf(domain_), {"cell"})
                 ELSE f2
         f4 == RequireAll(f3, EnergyOwnKeys, "energy", domain_)
         both == via_flux /\ via_temp
         fields == IF both THEN f3 ELSE f4
         evals == su_evals \cup EnergyEvalKeys
     IN /\ ss_flux_key_' = IF via_flux THEN flux_key ELSE ss_flux_key_
        /\ ss_primary_key_' = IF via_temp THEN temp_key ELSE ss_primary_key_
        /\ su_fields' = fields
        /\ su_evals' = evals
        /\ su_ensured' = su_ensured
             \cup {MeshItem(domain_), ScalarItem("atmospheric_pressure")}
             \cup {FieldItem(f.key) : f \in fields \ su_fields}
             \cup {FieldItem(k) : k \in EnergyEvalKeys}
             \cup (IF via_flux THEN {MeshItem(DomainSurf(domain_)), FieldItem(flux_key)}
                   ELSE {})
             \cup (IF via_temp THEN {MeshItem(DomainSurf(domain_)), FieldItem(temp_key)}
                   ELSE {})
             \cup (IF both THEN {} ELSE {FieldItem(k) : k \in EnergyOwnKeys})
        /\ su_thrown' = both
        /\ su_log' = IF both THEN su_log ELSE Append(su_log, <<fields, evals>>)
  /\ su_reads' = {}
  /\ SuKeep

\* EnergyBase::UpdateBoundaryConditions_: the surface mesh is looked up by the
\* domain of ss_flux_key_ under either coupling, the surface temperature by
\* the key "surface_temperature"
EnergyUpdateBoundaryConditions_ ==
  /\ UNCHANGED notSU
  /\ su_pk = "energy" /\ ~su_thrown /\ Len(su_log) > 1
  /\ su_reads' =
       (IF surface_coupling = "temperature"
          THEN {MeshItem(getDomain(ss_flux_key_)),
                FieldItem(SurfaceTemperatureLiteral(key_delim))}
          ELSE {})
       \cup (IF surface_coupling = "flux"
               THEN {MeshItem(getDomain(ss_flux_key_)), FieldItem(ss_flux_key_)}
               ELSE {})
       \cup {MeshItem(domain_), FieldItem(getKey(domain_, "temperature"))}
  /\ SuKeep
  /\ UNCHANGED <<ss_flux_key_, ss_primary_key_, su_fields, su_evals, su_ensured,
                 su_log, su_thrown>>

\* ------------------------------------------------------------------------
\* EnergyBase and FATES_PK: Setup and Initialize of the owned fields
\* ------------------------------------------------------------------------
EnergyFluxFields == {"diffusive_energy_flux", "advected_energy_flux"}
UwKey == "upwind_thermal_conductivity"
DuwKey == "dupwind_thermal_conductivity|temperature"
EbFields == {"temperature", UwKey, DuwKey, "fates"} \cup EnergyFluxFields
MethodNames == {"cell centered", "arithmetic mean", "harmonic mean"}

SetupResult(thrown, up, flux, temp, duw, req) ==
  [thrown |-> thrown, upwinding |-> up, via_flux |-> flux, via_temp |-> temp,
   duw |-> duw, required |-> req]

\* SetupEnergy_ without the test of the two couplings
SetupEnergyBothAllowed(method, disc, newton, flux, temp) ==
  IF method \notin {"cell centered", "arithmetic mean"}
    THEN SetupResult(TRUE, "null", FALSE, FALSE, "", {})
    ELSE LET duw == IF newton # "none" /\ disc # "fv: default" THEN DuwKey ELSE ""
         IN SetupResult(FALSE,
                        IF method = "cell centered" THEN "UpwindCellCentered"
                        ELSE "UpwindArithmeticMean",
                        flux, temp, duw,
                        {UwKey, "temperature"} \cup EnergyFluxFields
                          \cup (IF duw = "" THEN {} ELSE {duw}))

\* EnergyBase::SetupEnergy_: the upwinding strategy by name (any other name
\* throws), the upwinded conductivity and, with a Jacobian on a discretization
\* other than FV, its derivative; the coupling flags, which throw when both
\* are set; then the primary variable and the two energy fluxes
SetupEnergy_(method, disc, newton, flux, temp) ==
  IF method \notin {"cell centered", "arithmetic mean"}
    THEN SetupResult(TRUE, "null", FALSE, FALSE, "", {})
    ELSE LET up == IF method = "cell centered" THEN "UpwindCellCentered"
                   ELSE "UpwindArithmeticMean"
             duw == IF newton # "none" /\ disc # "fv: default" THEN DuwKey ELSE ""
             req == {UwKey} \cup (IF duw = "" THEN {} ELSE {duw})
         IN IF flux /\ temp
              THEN SetupResult(TRUE, up, flux, temp, duw, req)
              ELSE SetupResult(FALSE, up, flux, temp, duw,
                               req \cup {"temperature"} \cup EnergyFluxFields)

PutScalarInit(st, keys) ==
  [data |-> [f \in EbFields |-> IF f \in keys THEN 0 ELSE st.data[f]],
   init |-> [f \in EbFields |-> st.init[f] \/ f \in keys]]

\* EnergyBase::Initialize without the upwinded derivative
EnergyInitializeNoDerivative(st, duw) ==
  PutScalarInit(st, EnergyFluxFields \cup {UwKey})

\* EnergyBase::Initialize after the base class: the energy fluxes, the upwinded
\* conductivity and, when its key is not empty, the upwinded derivative are
\* set to zero and marked initialized
EnergyInitialize(st, duw) ==
  PutScalarInit(st, EnergyFluxFields \cup {UwKey}
                      \cup (IF duw = "" THEN {} ELSE {duw}))

\* PK_PhysicalBDF_Default::Initialize / PK_Physical_Default::Initialize: the
\* primary variable gets its initial condition
PhysicalInitialize(st, key, ic) ==
  [data |-> [st.data EXCEPT ![key] = ic], init |-> [st.init EXCEPT ![key] = TRUE]]

EbState == [data |-> eb_data, init |-> eb_initialized]
EbPlist ==
  UNCHANGED <<eb_pk, method_name, discretization_primary, newton_correction,
              plist_via_flux, plist_via_temp>>

\* EnergyBase::Setup
EbEnergySetup ==
  /\ UNCHANGED notEB
  /\ eb_pk = "energy" /\ eb_phase = "constructed"
  /\ LET r == SetupEnergy_(method_name, discretization_primary, newton_correction,
                           plist_via_flux, plist_via_temp)
     IN /\ upwinding_' = r.upwinding
        /\ coupled_to_surface_via_flux_' = r.via_flux
        /\ coupled_to_surface_via_temp_' = r.via_temp
        /\ duw_conductivity_key_' = r.duw
        /\ eb_required' = r.required
        /\ eb_phase' = IF r.thrown THEN "failed" ELSE "setup"
  /\ EbPlist
  /\ UNCHANGED <<eb_data, eb_initialized>>

\* EnergyBase::Initialize
EbEnergyInitialize(ic) ==
  /\ UNCHANGED notEB
  /\ eb_pk = "energy" /\ eb_phase = "setup"
  /\ LET st == EnergyInitialize(PhysicalInitialize(EbState, "temperature", ic),
                                duw_conductivity_key_)
     IN /\ eb_data' = st.data
        /\ eb_initialized' = st.init
  /\ eb_phase' = "initialized"
  /\ EbPlist
  /\ UNCHANGED <<upwinding_, coupled_to_surface_via_flux_,
                 coupled_to_surface_via_temp_, duw_conductivity_key_, eb_required>>

\* FATES_PK::Setup: throws without the two parameter files, else requires the
\* PK's own field
EbFatesSetup(files) ==
  /\ UNCHANGED notEB
  /\ eb_pk = "fates" /\ eb_phase = "constructed"
  /\ eb_required' = IF files THEN {"fates"} ELSE {}
  /\ eb_phase' = IF files THEN "setup" ELSE "failed"
  /\ EbPlist
  /\ UNCHANGED <<upwinding_, coupled_to_surface_via_flux_,
                 coupled_to_surface_via_temp_, duw_conductivity_key_, eb_data,
                 eb_initialized>>

\* FATES_PK::Initialize: the biomass is set to zero, filled by the external
\* model and marked initialized
EbFatesInitialize(grown) ==
  /\ UNCHANGED notEB
  /\ eb_pk = "fates" /\ eb_phase = "setup"
  /\ eb_data' = [eb_data EXCEPT !["fates"] = grown]
  /\ eb_initialized' = [eb_initialized EXCEPT !["fates"] = TRUE]
  /\ eb_phase' = "initialized"
  /\ EbPlist
  /\ UNCHANGED <<upwinding_, coupled_to_surface_via_flux_,
                 coupled_to_surface_via_temp_, duw_conductivity_key_, eb_required>>

\* ------------------------------------------------------------------------
\* FATES_PK::get_dt under the driver
\* ------------------------------------------------------------------------
GdSnap == [st |-> FatesNow, time |-> S_time]

\* FATES_PK::get_dt: reads the two schedules and the time of S_inter_, caches
\* the result in dt_ and returns it
FatesGetDt ==
  /\ UNCHANGED notGD
  /\ gd_calls < MaxGetDtCalls
  /\ dt_' = get_dt(t_photosynthesis_, t_site_dym_, dt_photosynthesis_,
                   dt_site_dym_, S_time)
  /\ gd_snap' = GdSnap
  /\ gd_calls' = gd_calls + 1

\* ------------------------------------------------------------------------
\* EvaluateFieldPartialDerivative_: the branches on wrt_key
\* ------------------------------------------------------------------------
\* the keys in the order of the if / else-if chain, each with the model
\* function its branch calls
LiquidIceBranches ==
  <<<<"porosity", "DEnergyDPorosity">>,
    <<"base_porosity", "DEnergyDBasePorosity">>,
    <<"saturation_liquid", "DEnergyDSaturationLiquid">>,
    <<"molar_density_liquid", "DEnergyDMolarDensityLiquid">>,
    <<"internal_energy_liquid", "DEnergyDInternalEnergyLiquid">>,
    <<"saturation_ice", "DEnergyDSaturationIce">>,
    <<"molar_density_ice", "DEnergyDMolarDensityIce">>,
    <<"internal_energy_ice", "DEnergyDInternalEnergyIce">>,
    <<"density_rock", "DEnergyDDensityRock">>,
    <<"internal_energy_rock", "DEnergyDInternalEnergyRock">>,
    <<"cell_volume", "DEnergyDCellVolume">>>>
RichardsBranches ==
  <<<<"porosity", "DEnergyDPorosity">>,
    <<"base_porosity", "DEnergyDBasePorosity">>,
    <<"saturation_liquid", "DEnergyDSaturationLiquid">>,
    <<"molar_density_liquid", "DEnergyDMolarDensityLiquid">>,
    <<"internal_energy_liquid", "DEnergyDInternalEnergyLiquid">>,
    <<"density_rock", "DEnergyDDensityRock">>,
    <<"internal_energy_rock", "DEnergyDInternalEnergyRock">>,
    <<"cell_volume", "DEnergyDCellVolume">>>>
\* the overland evaluator: the derivative in the depth from the model, the
\* other two from Conductivity and the power of the fractional conductance
OverlandBranches ==
  <<<<"mobile_depth", "DConductivityDDepth">>,
    <<"molar_density_liquid", "Conductivity * pow(frac, drag + 1)">>,
    <<"fractional_conductance",
      "Conductivity * dens * (drag + 1) * pow(frac, drag)">>>>

\* the keys inserted into dependencies_
LiquidIceKeys == {LiquidIceBranches[i][1] : i \in DOMAIN LiquidIceBranches}
RichardsKeys == {RichardsBranches[i][1] : i \in DOMAIN RichardsBranches}
OverlandKeys ==
  {"mobile_depth", "slope_magnitude", "manning_coefficient",
   "molar_density_liquid", "fractional_conductance", "drag_exponent"}
PdKinds == {"liquid_ice", "richards", "overland"}
PdDependencies(kind) ==
  CASE kind = "liquid_ice" -> LiquidIceKeys
    [] kind = "richards" -> RichardsKeys
    [] OTHER -> OverlandKeys
\* the keys asked for: every dependency of some evaluator, and the primary
\* variable behind them, which no evaluator here declares
PdKeys == LiquidIceKeys \cup OverlandKeys \cup {"temperature"}

\* the first branch of the chain whose key is wrt_key, 0 when none is
BranchOf(branches, wrt_key) ==
  IF \E i \in DOMAIN branches : branches[i][1] = wrt_key
    THEN CHOOSE i \in DOMAIN branches :
           /\ branches[i][1] = wrt_key
           /\ \A j \in 1..(i - 1) : branches[j][1] # wrt_key
    ELSE 0

\* else { AMANZI_ASSERT(0); }: fails when assertions are compiled in, else
\* returns with result as it was
EnergyPartialDerivative_(branches, wrt_key, dbc) ==
  LET i == BranchOf(branches, wrt_key)
  IN IF i > 0 THEN branches[i][2]
     ELSE IF dbc THEN "AMANZI_ASSERT(0)" ELSE "untouched"

\* OverlandConductivitySubgridEvaluator::EvaluateFieldPartialDerivative_:
\* else { result->PutScalar(0.); }
OverlandPartialDerivative_(wrt_key) ==
  LET i == BranchOf(OverlandBranches, wrt_key)
  IN IF i > 0 THEN OverlandBranches[i][2] ELSE "PutScalar(0.)"

PdKeep == UNCHANGED <<pd_kind, pd_wrt, pd_dbc>>

\* LiquidIceEnergyEvaluator::EvaluateFieldPartialDerivative_
PdLiquidIce ==
  /\ UNCHANGED notPD
  /\ pd_kind = "liquid_ice" /\ pd_answer = "none"
  /\ pd_answer' = EnergyPartialDerivative_(LiquidIceBranches, pd_wrt, pd_dbc)
  /\ PdKeep

\* RichardsEnergyEvaluator::EvaluateFieldPartialDerivative_
PdRichards ==
  /\ UNCHANGED notPD
  /\ pd_kind = "richards" /\ pd_answer = "none"
  /\ pd_answer' = EnergyPartialDerivative_(RichardsBranches, pd_wrt, pd_dbc)
  /\ PdKeep

\* OverlandConductivitySubgridEvaluator::EvaluateFieldPartialDerivative_
PdOverland ==
  /\ UNCHANGED notPD
  /\ pd_kind = "overland" /\ pd_answer = "none"
  /\ pd_answer' = OverlandPartialDerivative_(pd_wrt)
  /\ PdKeep

\* ------------------------------------------------------------------------
\* MPCSubsurface: modify_predictor and modify_correction
\* ------------------------------------------------------------------------
\* a vector of one cell and one face value
MpVectors == [cell : {0, 2}, face : {0, 1, 3}]

\* ewc_->modify_predictor(h, up): the delegate replaces the cell value when
\* it has a better one, and says so
DelegateModifyPredictor(up, better) ==
  [up |-> IF better THEN [up EXCEPT !.cell = @ + 1] ELSE up, modified |-> better]

\* MPCCoupledCells::modify_predictor(h, up): the face value consistent with
\* the cell value, when a sub-PK asks for consistent faces
BaseModifyPredictor(up, consistent) ==
  [up |-> IF consistent THEN [up EXCEPT !.face = up.cell] ELSE up,
   modified |-> consistent]

\* modify_predictor with the face update of the base coupler first
modify_predictor_base_first(ewc, up, better, consistent) ==
  LET b == BaseModifyPredictor(up, consistent)
      d == IF ewc THEN DelegateModifyPredictor(b.up, better)
           ELSE [up |-> b.up, modified |-> FALSE]
  IN [up |-> d.up, ret |-> d.modified \/ b.modified,
      trace |-> <<"MPCCoupledCells::modify_predictor">>
                  \o (IF ewc THEN <<"ewc_->modify_predictor">> ELSE <<>>)
                  \o (IF d.modified THEN <<"changed_solution">> ELSE <<>>)]

\* MPCSubsurface::modify_predictor: the delegate when there is one, with
\* changed_solution() when it modified; then the base coupler, always
modify_predictor(ewc, up, better, consistent) ==
  LET d == IF ewc THEN DelegateModifyPredictor(up, better)
           ELSE [up |-> up, modified |-> FALSE]
      b == BaseModifyPredictor(d.up, consistent)
  IN [up |-> b.up, ret |-> d.modified \/ b.modified,
      trace |-> (IF ewc THEN <<"ewc_->modify_predictor">> ELSE <<>>)
                  \o (IF d.modified THEN <<"changed_solution">> ELSE <<>>)
                  \o <<"MPCCoupledCells::modify_predictor">>]

\* MPCSubsurface::modify_correction: writes du to the debugger and returns
\* false
modify_correction(du) ==
  [du |-> du, ret |-> FALSE, trace |-> <<"db_->WriteVectors">>]

MpModifyPredictor(up, better, consistent) ==
  /\ UNCHANGED notMP
  /\ mp_calls < MaxModifyCalls
  /\ LET r == modify_predictor(mp_ewc, up, better, consistent)
     IN /\ mp_out' = r.up
        /\ mp_ret' = r.ret
        /\ mp_trace' = r.trace
  /\ mp_op' = "modify_predictor"
  /\ mp_in' = up
  /\ mp_answers' = [delegate |-> mp_ewc /\ better, base |-> consistent]
  /\ mp_calls' = mp_calls + 1
  /\ UNCHANGED mp_ewc

MpModifyCorrection(du) ==
  /\ UNCHANGED notMP
  /\ mp_calls < MaxModifyCalls
  /\ LET r == modify_correction(du)
     IN /\ mp_out' = r.du
        /\ mp_ret' = r.ret
        /\ mp_trace' = r.trace
  /\ mp_op' = "modify_correction"
  /\ mp_in' = du
  /\ mp_answers' = [delegate |-> FALSE, base |-> FALSE]
  /\ mp_calls' = mp_calls + 1
  /\ UNCHANGED mp_ewc

\* ------------------------------------------------------------------------
\* EnergyBase: the boundary functions and UpdateBoundaryConditions_
\* ------------------------------------------------------------------------
\* the faces of the markers: three owned, the last a ghost; the number of
\* cells of each (face 3 is interior)
BcFaces == {1, 2, 3, 4}
BcOwned == {1, 2, 3}
BcNCells == <<1, 1, 2, 1>>
\* surface->entity_get_parent(CELL, c): the subsurface face of the surface cell
SurfaceParent == {1}
BcFunctions == {"bc_temperature_", "bc_flux_", "bc_diff_flux_"}
NeverComputed == 0 - 1

\* the value of a boundary function computed at time t, of the surface
\* temperature and of the surface flux per face area
BcFunctionValue(fn, t) ==
  IF t = NeverComputed THEN 0
  ELSE CASE fn = "bc_temperature_" -> 270 + t
         [] fn = "bc_flux_" -> 10 + t
         [] OTHER -> 20 + t
SurfaceTemperature == 280
SurfaceFluxPerArea == 3

BcNone ==
  [marker |-> "OPERATOR_BC_NONE", value |-> 0,
   adv_marker |-> "OPERATOR_BC_NONE", adv_value |-> 0]
\* markers[f], values[f] and adv_markers[f] assigned on the faces given
BcAssign(st, faces, marker, value, adv_marker) ==
  [f \in BcFaces |->
     IF f \in faces
       THEN [st[f] EXCEPT !.marker = marker, !.value = value,
                          !.adv_marker = adv_marker]
       ELSE st[f]]

\* the rest of UpdateBoundaryConditions_ on markers and values as given
UpdateBoundaryConditionsFrom(st0, faces, computed, coupling) ==
  LET st1 == BcAssign(st0, faces["bc_temperature_"], "OPERATOR_BC_DIRICHLET",
                      BcFunctionValue("bc_temperature_", computed["bc_temperature_"]),
                      "OPERATOR_BC_DIRICHLET")
      st2 == BcAssign(st1, faces["bc_flux_"], "OPERATOR_BC_NEUMANN",
                      BcFunctionValue("bc_flux_", computed["bc_flux_"]),
                      "OPERATOR_BC_NEUMANN")
      st3 == BcAssign(st2, faces["bc_diff_flux_"], "OPERATOR_BC_NEUMANN",
                      BcFunctionValue("bc_diff_flux_", computed["bc_diff_flux_"]),
                      "OPERATOR_BC_DIRICHLET")
      st4 == IF coupling = "temperature"
               THEN BcAssign(st3, SurfaceParent, "OPERATOR_BC_DIRICHLET",
                             SurfaceTemperature, "OPERATOR_BC_DIRICHLET")
               ELSE st3
      st5 == IF coupling = "flux"
               THEN BcAssign(st4, SurfaceParent, "OPERATOR_BC_NEUMANN",
                             SurfaceFluxPerArea, "OPERATOR_BC_DIRICHLET")
               ELSE st4
  IN BcAssign(st5,
              {f \in BcOwned : st5[f].marker = "OPERATOR_BC_NONE" /\ BcNCells[f] = 1},
              "OPERATOR_BC_NEUMANN", 0, "OPERATOR_BC_DIRICHLET")

\* UpdateBoundaryConditions_ without the loop that resets the markers
UpdateBoundaryConditionsKeeping(st, faces, computed, coupling) ==
  UpdateBoundaryConditionsFrom(st, faces, computed, coupling)

\* EnergyBase::UpdateBoundaryConditions_: every marker and value is reset,
\* then assigned from the temperature, the total flux and the diffusive flux
\* function and from the coupled surface, in this order; the owned faces left
\* without a marker that have one cell get a zero diffusive flux
UpdateBoundaryConditions_(st, faces, computed, coupling) ==
  UpdateBoundaryConditionsFrom([f \in BcFaces |-> BcNone], faces, computed, coupling)

\* bc->Compute(t) on the functions given
Compute(computed, fns, t) ==
  [fn \in BcFunctions |-> IF fn \in fns THEN t ELSE computed[fn]]

BcBuild(by, computed) ==
  /\ bc_computed' = computed
  /\ bc_state' = UpdateBoundaryConditions_(bc_state, bc_faces, computed, bc_coupling)
  /\ bc_built' = [by |-> by, time |-> bc_now, computed |-> computed]
  /\ UNCHANGED <<bc_faces, bc_coupling, bc_now>>

\* EnergyBase::ModifyPredictor: the temperature and the total flux function
\* are computed at the time of S_next_, then the markers are built
BcModifyPredictor ==
  /\ UNCHANGED notBC
  /\ BcBuild("ModifyPredictor",
             Compute(bc_computed, {"bc_temperature_", "bc_flux_"}, bc_now))

\* EnergyBase::CommitStep: the three functions are computed at the time of
\* the state committed, then the markers are built
BcCommitStep ==
  /\ UNCHANGED notBC
  /\ BcBuild("CommitStep", Compute(bc_computed, BcFunctions, bc_now))

\* the driver starts the next step: S_next_ gets the new time
BcNextStep ==
  /\ UNCHANGED notBC
  /\ bc_now < MaxBcTime
  /\ bc_now' = bc_now + 1
  /\ UNCHANGED <<bc_faces, bc_computed, bc_coupling, bc_state, bc_built>>

\* ------------------------------------------------------------------------
\* The specifications: one per subsystem, the others at rest
\* ------------------------------------------------------------------------
ParkedMPC ==
  /\ plist_ = [has_precon |-> FALSE, precon |-> "",
               ewc_sublist |-> FALSE, predictor_type |-> FALSE]
  /\ pk_phase = "constructed"
  /\ precon_type_ = "UNINIT"
  /\ ewc_ = FALSE
  /\ hooks_run = {}
  /\ assembled = {}
  /\ applied = <<>>
  /\ u_arg = ZeroVec
  /\ Pu = ZeroVec /\ Pu_std = ZeroVec /\ res0 = ZeroVec
  /\ ewc_in = ZeroVec
  /\ ewc_failed = {}
  /\ precon_pc = 0
  /\ trace = <<>>
  /\ mpc_crashed = FALSE

ParkedAdm ==
  /\ up_ents = <<>>
  /\ has_face = FALSE
  /\ adm_pc = [r \in Ranks |-> "scan"]
  /\ minT_l = [r \in Ranks |-> SentinelHi]
  /\ maxT_l = [r \in Ranks |-> SentinelLo]
  /\ minT = [r \in Ranks |-> SentinelHi]
  /\ maxT = [r \in Ranks |-> SentinelLo]
  /\ verdict = [r \in Ranks |-> "pending"]

ParkedPred ==
  /\ modify_predictor_for_freezing_ = FALSE
  /\ modify_predictor_with_consistent_faces_ = FALSE
  /\ pred_ents = <<>>
  /\ pred_u = <<>>
  /\ pred_u_face = PredictedFaces
  /\ pred_u_in = [u |-> <<>>, face |-> PredictedFaces]
  /\ pred_ret = <<>>

ParkedCorr ==
  /\ T_limit_ = 0 - 1
  /\ corr_bfs = <<>>
  /\ corr_du = [cell |-> [c \in Cells |-> 0], boundary_face |-> <<>>]
  /\ corr_du_in = corr_du
  /\ other_limited = 0
  /\ corr_ret = "none"

ParkedEC ==
  /\ ev_kind = [k \in EvKeys |-> "leaf"]
  /\ ev_deps = [k \in EvKeys |-> {}]
  /\ ev_mobile = [k \in EvKeys |-> k]
  /\ fld = [k \in EvKeys |-> NoLayout]
  /\ ec_stack = <<>>
  /\ ec_status = "idle"
  /\ ec_visits = [k \in EvKeys |-> 0]
  /\ fld_log = <<fld>>

HfFresh ==
  /\ hf_requests = [k \in HfKeys |-> {}]
  /\ hf_evals = [k \in HfKeys |-> 0]
  /\ hf_stale = [k \in HfKeys |-> TRUE]
  /\ hf_due = [k \in HfKeys |-> 0]
  /\ hf_pending = [x \in HfKeys \X Requesters |-> TRUE]
  /\ hf_last = [key |-> 1, request |-> "none", ret |-> FALSE, due |-> FALSE]
  /\ hf_ops = 0

ParkedHF ==
  /\ hf_kind = [k \in HfKeys |-> "leaf"]
  /\ hf_deps = [k \in HfKeys |-> {}]
  /\ hf_once = [k \in HfKeys |-> FALSE]
  /\ HfFresh

PfNothing == PfResult("none", "none", <<>>, <<>>, <<>>)

ParkedPF ==
  /\ pf_kind = "porosity"
  /\ pf_x = [q \in PorosityDeps |-> Rising(q)]
  /\ pf_y = pf_x
  /\ pf_dep = "pressure"
  /\ pf_cell = 1
  /\ pf_res = PfNothing

\* FATES_PK::Initialize: both schedules start at the time of the state
FatesInitialized ==
  /\ S_time = 0
  /\ t_photosynthesis_ = S_time
  /\ t_site_dym_ = S_time
  /\ clump_ = [acc |-> 0, dyn |-> 0]
  /\ biomass = calculate_biomass(clump_)
  /\ ft_phase = "idle"
  /\ ft_tnew = 0
  /\ ft_ref = FatesNow
  /\ ft_rejected = 0

ParkedFT ==
  /\ dt_photosynthesis_ = 1
  /\ dt_site_dym_ = 2
  /\ FatesInitialized

\* a PK constructed, Setup not yet called
SuConstructed ==
  /\ ss_flux_key_ = EmptyKey
  /\ ss_primary_key_ = EmptyKey
  /\ su_evals = {}
  /\ su_ensured = {}
  /\ su_reads = {}
  /\ su_log = <<<<su_fields, su_evals>>>>
  /\ su_thrown = FALSE

ParkedSU ==
  /\ su_pk = "fates"
  /\ key_delim = "-"
  /\ has_param_files = TRUE
  /\ surface_only_ = FALSE
  /\ salinity_on_ = FALSE
  /\ domain_ = "domain"
  /\ surface_coupling = "none"
  /\ su_fields = {}
  /\ SuConstructed

\* a PK as constructed: no strategy, both coupling flags false, nothing
\* required or initialized
EbConstructed ==
  /\ upwinding_ = "null"
  /\ coupled_to_surface_via_flux_ = FALSE
  /\ coupled_to_surface_via_temp_ = FALSE
  /\ duw_conductivity_key_ = ""
  /\ eb_required = {}
  /\ eb_initialized = [f \in EbFields |-> FALSE]
  /\ eb_phase = "constructed"

ParkedEB ==
  /\ eb_pk = "fates"
  /\ method_name = "arithmetic mean"
  /\ discretization_primary = "fv: default"
  /\ newton_correction = "none"
  /\ plist_via_flux = FALSE
  /\ plist_via_temp = FALSE
  /\ eb_data = [f \in EbFields |-> 0]
  /\ EbConstructed

\* dt_ = plist_->get<double>("initial time step", 1.)
ParkedGD ==
  /\ dt_ = 1
  /\ gd_calls = 0
  /\ gd_snap = [st |-> FatesState(0, 0, [acc |-> 0, dyn |-> 0]), time |-> 0]

ParkedPD ==
  /\ pd_kind = "overland"
  /\ pd_wrt = "temperature"
  /\ pd_dbc = FALSE
  /\ pd_answer = "none"

MpIdle ==
  /\ mp_op = "none"
  /\ mp_in = [cell |-> 0, face |-> 0]
  /\ mp_out = mp_in
  /\ mp_answers = [delegate |-> FALSE, base |-> FALSE]
  /\ mp_ret = FALSE
  /\ mp_trace = <<>>
  /\ mp_calls = 0

ParkedMP ==
  /\ mp_ewc = FALSE
  /\ MpIdle

\* nothing computed, markers and values as allocated
BcUnbuilt ==
  /\ bc_computed = [fn \in BcFunctions |-> NeverComputed]
  /\ bc_now = 0
  /\ bc_built = [by |-> "none", time |-> 0, computed |-> bc_computed]

ParkedBC ==
  /\ bc_faces = [fn \in BcFunctions |-> {}]
  /\ bc_coupling = "none"
  /\ bc_state = [f \in BcFaces |-> BcNone]
  /\ BcUnbuilt

InitMPC ==
  /\ ParkedBC
  /\ ParkedMP
  /\ ParkedPD
  /\ ParkedGD
  /\ ParkedEB
  /\ ParkedAdm /\ ParkedPred /\ ParkedCorr /\ ParkedEC /\ ParkedHF /\ ParkedPF /\ ParkedFT
  /\ ParkedSU
  /\ plist_ \in Plists
  /\ pk_phase = "constructed"
  /\ precon_type_ = "UNINIT"
  /\ ewc_ = FALSE
  /\ hooks_run = {}
  /\ assembled = {}
  /\ applied = <<>>
  /\ u_arg \in TreeVectors(ResidualVals)
  /\ Pu = ZeroVec /\ Pu_std = ZeroVec /\ res0 = ZeroVec
  /\ ewc_in = ZeroVec
  /\ ewc_failed = {}
  /\ precon_pc = 0
  /\ trace = <<>>
  /\ mpc_crashed = FALSE

NextMPC ==
  \/ Setup
  \/ UpdatePrecon
  \/ PreconCall
  \/ EwcPicard
  \/ EwcCopy
  \/ EwcDelegate
  \/ EwcDiff
  \/ EwcFaces

SpecMPC == InitMPC /\ [][NextMPC]_vars

InitAdm ==
  /\ ParkedBC
  /\ ParkedMP
  /\ ParkedPD
  /\ ParkedGD
  /\ ParkedEB
  /\ ParkedMPC /\ ParkedPred /\ ParkedCorr /\ ParkedEC /\ ParkedHF /\ ParkedPF /\ ParkedFT
  /\ ParkedSU
  /\ has_face \in BOOLEAN
  /\ up_ents \in EntSeqs(has_face)
  /\ adm_pc = [r \in Ranks |-> "scan"]
  /\ minT_l = [r \in Ranks |-> SentinelHi]
  /\ maxT_l = [r \in Ranks |-> SentinelLo]
  /\ minT = [r \in Ranks |-> SentinelHi]
  /\ maxT = [r \in Ranks |-> SentinelLo]
  /\ verdict = [r \in Ranks |-> "pending"]

NextAdm ==
  \/ \E r \in Ranks : AdmScan(r)
  \/ AdmReduce
  \/ \E r \in Ranks : AdmReturn(r)

SpecAdm == InitAdm /\ [][NextAdm]_vars

InitPred ==
  /\ ParkedBC
  /\ ParkedMP
  /\ ParkedPD
  /\ ParkedGD
  /\ ParkedEB
  /\ ParkedMPC /\ ParkedAdm /\ ParkedCorr /\ ParkedEC /\ ParkedHF /\ ParkedPF /\ ParkedFT
  /\ ParkedSU
  /\ modify_predictor_for_freezing_ \in BOOLEAN
  /\ modify_predictor_with_consistent_faces_ \in BOOLEAN
  /\ pred_ents \in PredEntSeqs
  /\ pred_u \in [DOMAIN pred_ents -> USamples]
  /\ pred_u_face = PredictedFaces
  /\ pred_u_in = [u |-> pred_u, face |-> pred_u_face]
  /\ pred_ret = <<>>

NextPred == ModifyPredictorCall

SpecPred == InitPred /\ [][NextPred]_vars

InitCorr ==
  /\ ParkedBC
  /\ ParkedMP
  /\ ParkedPD
  /\ ParkedGD
  /\ ParkedEB
  /\ ParkedMPC /\ ParkedAdm /\ ParkedPred /\ ParkedEC /\ ParkedHF /\ ParkedPF /\ ParkedFT
  /\ ParkedSU
  /\ T_limit_ \in TLimitSamples
  /\ corr_bfs \in BfSeqs
  /\ \E dc \in [Cells -> DuCellSamples], db \in [DOMAIN corr_bfs -> DuBfSamples] :
       corr_du = [cell |-> dc, boundary_face |-> db]
  /\ corr_du_in = corr_du
  /\ other_limited \in {0, 1}
  /\ corr_ret = "none"

NextCorr == ModifyCorrectionCall

SpecCorr == InitCorr /\ [][NextCorr]_vars

\* the graph of a configuration: an evaluator without dependencies is a leaf,
\* the others are of the two kinds; the mobile depth is one of the
\* dependencies of an overland evaluator
InitEC ==
  /\ ParkedBC
  /\ ParkedMP
  /\ ParkedPD
  /\ ParkedGD
  /\ ParkedEB
  /\ ParkedMPC /\ ParkedAdm /\ ParkedPred /\ ParkedCorr /\ ParkedHF /\ ParkedPF /\ ParkedFT
  /\ ParkedSU
  /\ ev_deps \in Graphs
  /\ ev_kind \in [EvKeys -> {"overland", "water_table", "leaf"}]
  /\ \A k \in EvKeys : ev_kind[k] = "leaf" <=> ev_deps[k] = {}
  /\ ev_mobile \in [EvKeys -> EvKeys]
  /\ \A k \in EvKeys :
       IF ev_kind[k] = "overland" THEN ev_mobile[k] \in ev_deps[k]
       ELSE ev_mobile[k] = k
  /\ fld \in [EvKeys -> FieldLayouts]
  /\ ec_stack = <<>>
  /\ ec_status = "idle"
  /\ ec_visits = [k \in EvKeys |-> 0]
  /\ fld_log = <<fld>>

NextEC ==
  \/ EcCall
  \/ EcEnterOverland
  \/ EcEnterWaterTable
  \/ EcEnterLeaf
  \/ EcRecurse
  \/ EcReturn

SpecEC == InitEC /\ [][NextEC]_vars

\* neither constructor of WaterTableColumnsEvaluator assigns updated_once_:
\* its first value is whatever the build gives it
InitHF ==
  /\ ParkedBC
  /\ ParkedMP
  /\ ParkedPD
  /\ ParkedGD
  /\ ParkedEB
  /\ ParkedMPC /\ ParkedAdm /\ ParkedPred /\ ParkedCorr /\ ParkedEC /\ ParkedPF /\ ParkedFT
  /\ ParkedSU
  /\ hf_deps \in HfGraphs
  /\ hf_kind \in [HfKeys -> {"leaf", "secondary", "water_table"}]
  /\ \A k \in HfKeys : hf_kind[k] = "leaf" <=> hf_deps[k] = {}
  /\ hf_once \in [HfKeys -> BOOLEAN]
  /\ \A k \in HfKeys : hf_kind[k] # "water_table" => hf_once[k] = FALSE
  /\ HfFresh

NextHF ==
  \/ \E k \in HfKeys, request \in PkNames : HfQuery(k, request)
  \/ \E k \in HfKeys : HfChange(k)

SpecHF == InitHF /\ [][NextHF]_vars

InitPF ==
  /\ ParkedBC
  /\ ParkedMP
  /\ ParkedPD
  /\ ParkedGD
  /\ ParkedEB
  /\ ParkedMPC /\ ParkedAdm /\ ParkedPred /\ ParkedCorr /\ ParkedEC /\ ParkedHF
  /\ ParkedFT /\ ParkedSU
  /\ pf_kind \in PfKinds
  /\ pf_x \in Inputs(pf_kind)
  /\ pf_dep \in DepsOfKind(pf_kind)
  /\ pf_cell \in PfCells
  /\ pf_y = Perturbed(pf_x, pf_dep, pf_cell)
  /\ pf_res = PfNothing

NextPF ==
  \/ EvalOverland
  \/ \E wrt_key \in OverlandDeps : PartialOverland(wrt_key)
  \/ EvalLiquidIce
  \/ EvalWaterTable
  \/ EvalPorosity
  \/ \E wrt_key \in PorosityDeps : PartialPorosity(wrt_key)

SpecPF == InitPF /\ [][NextPF]_vars

InitFT ==
  /\ ParkedBC
  /\ ParkedMP
  /\ ParkedPD
  /\ ParkedGD
  /\ ParkedEB
  /\ ParkedMPC /\ ParkedAdm /\ ParkedPred /\ ParkedCorr /\ ParkedEC /\ ParkedHF
  /\ ParkedPF /\ ParkedSU
  /\ dt_photosynthesis_ \in PhotoSteps
  /\ dt_site_dym_ \in SiteDymSteps
  /\ FatesInitialized

NextFT ==
  \/ \E t_new \in 1..MaxFatesTime : FatesAdvanceStep(t_new)
  \/ FatesCommitStep
  \/ FatesReject

SpecFT == InitFT /\ [][NextFT]_vars

InitSU ==
  /\ ParkedBC
  /\ ParkedMP
  /\ ParkedPD
  /\ ParkedGD
  /\ ParkedEB
  /\ ParkedMPC /\ ParkedAdm /\ ParkedPred /\ ParkedCorr /\ ParkedEC /\ ParkedHF
  /\ ParkedPF /\ ParkedFT
  /\ su_pk \in {"fates", "energy"}
  /\ key_delim \in {"_", "-"}
  /\ has_param_files \in BOOLEAN
  /\ surface_only_ \in BOOLEAN
  /\ salinity_on_ \in BOOLEAN
  /\ domain_ \in {"domain", "column_0"}
  /\ surface_coupling \in {"none", "flux", "temperature", "both"}
  /\ su_fields \in SUBSET OtherFields
  /\ su_pk = "fates" =>
       domain_ = "domain" /\ surface_coupling = "none" /\ key_delim = "-"
  /\ su_pk = "energy" =>
       has_param_files /\ ~surface_only_ /\ ~salinity_on_ /\ su_fields = {}
  /\ SuConstructed

NextSU ==
  \/ FatesSetup
  \/ \E run_photo \in BOOLEAN : FatesAdvanceStepReads(run_photo)
  \/ FatesCommitStepReads
  \/ EnergySetup
  \/ EnergyUpdateBoundaryConditions_

SpecSU == InitSU /\ [][NextSU]_vars

InitEB ==
  /\ ParkedBC
  /\ ParkedMP
  /\ ParkedPD
  /\ ParkedGD
  /\ ParkedMPC
  /\ ParkedAdm
  /\ ParkedPred
  /\ ParkedCorr
  /\ ParkedEC
  /\ ParkedHF
  /\ ParkedPF
  /\ ParkedFT
  /\ ParkedSU
  /\ eb_pk \in {"energy", "fates"}
  /\ method_name \in MethodNames
  /\ discretization_primary \in {"fv: default", "mfd: default"}
  /\ newton_correction \in {"none", "true Jacobian", "approximate Jacobian"}
  /\ plist_via_flux \in BOOLEAN
  /\ plist_via_temp \in BOOLEAN
  /\ eb_pk = "fates" =>
       /\ method_name = "arithmetic mean" /\ discretization_primary = "fv: default"
       /\ newton_correction = "none" /\ ~plist_via_flux /\ ~plist_via_temp
  /\ eb_data \in [EbFields -> {0, 1}]
  /\ eb_data["fates"] = 0 \/ eb_pk = "fates"
  /\ eb_data["temperature"] = 0
  /\ EbConstructed

NextEB ==
  \/ EbEnergySetup
  \/ \E ic \in {0, 1} : EbEnergyInitialize(ic)
  \/ \E files \in BOOLEAN : EbFatesSetup(files)
  \/ \E grown \in {0, 1} : EbFatesInitialize(grown)

SpecEB == InitEB /\ [][NextEB]_vars

NextGD ==
  \/ NextFT
  \/ FatesGetDt

SpecGD == InitFT /\ [][NextGD]_vars

InitPD ==
  /\ ParkedBC
  /\ ParkedMP
  /\ ParkedMPC
  /\ ParkedAdm
  /\ ParkedPred
  /\ ParkedCorr
  /\ ParkedEC
  /\ ParkedHF
  /\ ParkedPF
  /\ ParkedFT
  /\ ParkedSU
  /\ ParkedEB
  /\ ParkedGD
  /\ pd_kind \in PdKinds
  /\ pd_wrt \in PdKeys
  /\ pd_dbc \in BOOLEAN
  /\ pd_answer = "none"

NextPD ==
  \/ PdLiquidIce
  \/ PdRichards
  \/ PdOverland

SpecPD == InitPD /\ [][NextPD]_vars

InitMP ==
  /\ ParkedBC
  /\ ParkedMPC
  /\ ParkedAdm
  /\ ParkedPred
  /\ ParkedCorr
  /\ ParkedEC
  /\ ParkedHF
  /\ ParkedPF
  /\ ParkedFT
  /\ ParkedSU
  /\ ParkedEB
  /\ ParkedGD
  /\ ParkedPD
  /\ mp_ewc \in BOOLEAN
  /\ MpIdle

NextMP ==
  \/ \E up \in MpVectors, better, consistent \in BOOLEAN :
       MpModifyPredictor(up, better, consistent)
  \/ \E du \in MpVectors : MpModifyCorrection(du)

SpecMP == InitMP /\ [][NextMP]_vars

InitBC ==
  /\ ParkedMPC
  /\ ParkedAdm
  /\ ParkedPred
  /\ ParkedCorr
  /\ ParkedEC
  /\ ParkedHF
  /\ ParkedPF
  /\ ParkedFT
  /\ ParkedSU
  /\ ParkedEB
  /\ ParkedGD
  /\ ParkedPD
  /\ ParkedMP
  /\ bc_faces \in [BcFunctions -> SUBSET {1, 2}]
  /\ bc_coupling \in {"none", "temperature", "flux"}
  /\ bc_state \in {[f \in BcFaces |-> BcNone],
                   [f \in BcFaces |->
                      [marker |-> "OPERATOR_BC_DIRICHLET", value |-> 9,
                       adv_marker |-> "OPERATOR_BC_NEUMANN", adv_value |-> 0]]}
  /\ BcUnbuilt

NextBC ==
  \/ BcModifyPredictor
  \/ BcCommitStep
  \/ BcNextStep

SpecBC == InitBC /\ [][NextBC]_vars

\* ------------------------------------------------------------------------
\* Properties of MPCSubsurface
\* ------------------------------------------------------------------------
AcceptedStrings == {"none", "block diagonal", "picard", "ewc", "smart ewc"}
ExpectedType ==
  [x \in AcceptedStrings |->
     CASE x = "none" -> "PRECON_NONE"
       [] x = "block diagonal" -> "PRECON_BLOCK_DIAGONAL"
       [] x = "picard" -> "PRECON_PICARD"
       [] x \in {"ewc", "smart ewc"} -> "PRECON_EWC"]
SetupRan == pk_phase # "constructed"
OldStyleList == ~plist_.ewc_sublist /\ plist_.predictor_type

\* C1: setup accepts exactly "none", "block diagonal", "picard", "ewc" and
\* "smart ewc" (an absent option counts as "picard") and selects the type that
\* string names; on any other string setup fails and precon_type_ is left
\* unassigned; update_precon and precon never run with an unassigned type.
C1_SetupSelectsType ==
  /\ (SetupRan /\ plist_.has_precon /\ plist_.precon \notin AcceptedStrings)
       => (pk_phase = "failed" /\ precon_type_ = "UNINIT")
  /\ (SetupRan /\ plist_.has_precon /\ plist_.precon \in AcceptedStrings)
       => (/\ precon_type_ = ExpectedType[plist_.precon]
           /\ (pk_phase = "setup" <=> ~OldStyleList))
  /\ (SetupRan /\ ~plist_.has_precon)
       => (/\ precon_type_ = "PRECON_PICARD"
           /\ (pk_phase = "setup" <=> ~OldStyleList))
  /\ (hooks_run # {} \/ pk_phase = "setup") => precon_type_ \in PreconTypes

C1_Witness ==
  /\ pk_phase = "failed" /\ plist_.has_precon /\ plist_.precon = "EWC"
  /\ plist_.ewc_sublist

PicardOfArg == CoupledPrecon(u_arg)
ExpectedEwcOrder == <<"picard", "copy", "ewc", "diff", "faces">>
Done(st) == st \in Range(trace)

\* C2: under EWC every precon call runs, in this order: the PICARD
\* preconditioner fills Pu; Pu_std is a copy of that result; the delegate is
\* handed that result and updates the cell part of Pu; Pu_std becomes the
\* cell difference with the face correction consistent with it for a zero
\* residual; the face part of both sub-vectors of Pu gets that correction.
C2_EwcOrder ==
  (precon_type_ = "PRECON_EWC" /\ "precon" \in hooks_run) =>
    /\ Len(trace) <= Len(ExpectedEwcOrder)
    /\ \A i \in DOMAIN trace : trace[i] = ExpectedEwcOrder[i]
    /\ (precon_pc = 0 /\ ~mpc_crashed) => trace = ExpectedEwcOrder
    /\ (Done("picard") /\ ~Done("ewc")) => Pu = PicardOfArg
    /\ (Done("copy") /\ ~Done("diff")) => Pu_std = PicardOfArg
    /\ Done("ewc") =>
         /\ ewc_in = PicardOfArg
         /\ \A s \in Sub :
              Pu[s].cell = DelegatePrecon(u_arg, PicardOfArg, ewc_failed)[s].cell
    /\ Done("diff") =>
         \A s \in Sub :
           /\ \A c \in Cells :
                Pu_std[s].cell[c] = Pu[s].cell[c] - PicardOfArg[s].cell[c]
           /\ Pu_std[s].face =
                UpdateConsistentFaceCorrection(ZeroVec, Pu_std)[s].face
    /\ (Done("ewc") /\ ~Done("faces")) =>
         \A s \in Sub : Pu[s].face = PicardOfArg[s].face
    /\ Done("faces") =>
         \A s \in Sub : \A f \in Faces :
           Pu[s].face[f] = PicardOfArg[s].face[f] + Pu_std[s].face[f]

C2_Witness ==
  /\ precon_type_ = "PRECON_EWC" /\ precon_pc = 0
  /\ trace = ExpectedEwcOrder
  /\ \E s \in Sub : \E f \in Faces : Pu_std[s].face[f] # 0
  /\ u_arg # ZeroVec

PreconReturnedEwc ==
  /\ precon_type_ = "PRECON_EWC" /\ precon_pc = 0 /\ ~mpc_crashed
  /\ "precon" \in hooks_run

\* C3: when an EWC precon call returns, a cell on which the delegate did not
\* converge carries the PICARD correction in both sub-vectors, and every other
\* cell carries the delegate's result for that cell, whatever the set of
\* cells that failed.
C3_Fallback ==
  PreconReturnedEwc =>
    \A c \in Cells : \A s \in Sub :
      Pu[s].cell[c] =
        IF c \in ewc_failed THEN PicardOfArg[s].cell[c]
        ELSE EwcLocalSolve(u_arg[0].cell[c], u_arg[1].cell[c],
                           PicardOfArg[0].cell[c], PicardOfArg[1].cell[c])[s + 1]

C3_Witness ==
  /\ PreconReturnedEwc
  /\ ewc_failed # {} /\ ewc_failed # Cells
  /\ \E c \in Cells \ ewc_failed : Pu[0].cell[c] # PicardOfArg[0].cell[c]

\* C4: with type NONE precon returns Pu = u and update_precon assembles
\* nothing; with BLOCK_DIAGONAL update_precon and precon go through StrongMPC
\* only: the coupled operator is neither assembled nor applied.
C4_NoneAndBlockDiagonal ==
  /\ precon_type_ = "PRECON_NONE" =>
       /\ assembled = {} /\ applied = <<>>
       /\ "precon" \in hooks_run => Pu = u_arg
  /\ precon_type_ = "PRECON_BLOCK_DIAGONAL" =>
       /\ "MPCCoupledCells" \notin assembled \cup Range(applied)
       /\ "ewc_" \notin assembled \cup Range(applied)
       /\ "update_precon" \in hooks_run => assembled = {"StrongMPC"}
       /\ "precon" \in hooks_run =>
            (applied = <<"StrongMPC">> /\ Pu = StrongPrecon(u_arg))

C4_Witness ==
  /\ precon_type_ = "PRECON_NONE"
  /\ hooks_run = {"update_precon", "precon"}
  /\ Pu = u_arg /\ u_arg # ZeroVec

\* ------------------------------------------------------------------------
\* Properties of EnergyBase::IsAdmissible
\* ------------------------------------------------------------------------
InRange(T) == ~TLt(T, T200) /\ ~TLt(T330, T)
AllEnts == DOMAIN up_ents
CheckedEnts == {i \in AllEnts : up_ents[i].kind \in {"cell", "face"}}
AdmAllDone == \A r \in Ranks : adm_pc[r] = "done"
OwnedBy(r) == {i \in AllEnts : up_ents[i].owner = r}

\* C5: IsAdmissible returns true iff every cell and face value lies in
\* [200, 330]: a value exactly at 200 or at 330 is accepted, a value below 200
\* or above 330 is not.
C5_AdmissibleIffInBounds ==
  \A r \in Ranks :
    adm_pc[r] = "done" =>
      (verdict[r] = "admissible" <=> \A i \in CheckedEnts : InRange(up_ents[i].T))

C5_Witness ==
  /\ AdmAllDone
  /\ \A r \in Ranks : verdict[r] = "admissible"
  /\ \E i \in CheckedEnts : up_ents[i].T = T200
  /\ \E i \in CheckedEnts : up_ents[i].T = T330

\* the least and the greatest of the cell and face values of all ranks
GlobalMin ==
  IF CheckedEnts = {} THEN SentinelHi
  ELSE LET i == CHOOSE j \in CheckedEnts :
                  \A k \in CheckedEnts : ~TLt(up_ents[k].T, up_ents[j].T)
       IN up_ents[i].T
GlobalMax ==
  IF CheckedEnts = {} THEN SentinelLo
  ELSE LET i == CHOOSE j \in CheckedEnts :
                  \A k \in CheckedEnts : ~TLt(up_ents[j].T, up_ents[k].T)
       IN up_ents[i].T

\* C6: after the reduction every rank holds the minimum and the maximum over
\* the owned cells and faces of all ranks, a rank that owns nothing included,
\* and all ranks return the same verdict: rejected iff some rank owns a cell or
\* face value outside the bounds.
C6_GlobalVerdict ==
  /\ \A r \in Ranks :
       adm_pc[r] \in {"decide", "done"} =>
         (minT[r] = GlobalMin /\ maxT[r] = GlobalMax)
  /\ \A r, q \in Ranks :
       (adm_pc[r] = "done" /\ adm_pc[q] = "done") => verdict[r] = verdict[q]
  /\ \A r \in Ranks :
       adm_pc[r] = "done" =>
         (verdict[r] = "rejected" <=>
            \E q \in Ranks : \E i \in OwnedBy(q) \cap CheckedEnts :
              ~InRange(up_ents[i].T))

C6_Witness ==
  /\ AdmAllDone
  /\ \E r, q \in Ranks :
       /\ OwnedBy(r) = {}
       /\ \E i \in OwnedBy(q) \cap CheckedEnts : TLt(up_ents[i].T, T200)
       /\ verdict[r] = "rejected" /\ verdict[q] = "rejected"

\* C7: IsAdmissible rejects the state whenever an owned entity of any
\* component (cell, face or boundary_face) has a value outside [200, 330].
C7_RejectsAnyComponent ==
  \A r \in Ranks :
    adm_pc[r] = "done" =>
      ((\E i \in AllEnts : ~InRange(up_ents[i].T)) => verdict[r] = "rejected")

\* ------------------------------------------------------------------------
\* Properties of EnergyBase::ModifyPredictor
\* ------------------------------------------------------------------------
PredCalls == Len(pred_ret)
PredChanged == pred_u # pred_u_in.u \/ pred_u_face # pred_u_in.face

\* C9: a second ModifyPredictor call on the output of the first (same u0)
\* returns modified = false, whatever the two options are.
C9_SecondCallUnmodified == PredCalls >= 2 => pred_ret[2] = FALSE

\* the entries after a call with the freezing modification, from the entries
\* passed in: an entry that crossed 273.15 downwards becomes 273.15 - 0.00001,
\* one that crossed it upwards becomes 273.15 + 0.00001, the others stay
PredValuesAsClaimed ==
  (PredCalls >= 1 /\ modify_predictor_for_freezing_) =>
    \A i \in DOMAIN pred_ents :
      LET u0v == pred_ents[i].u0
          uv == pred_u_in.u[i]
      IN pred_u[i] =
           IF TLt(TFreeze, u0v) /\ TLt(uv, TFreeze) THEN TFreezeMinus
           ELSE IF TLt(u0v, TFreeze) /\ TLt(TFreeze, uv) THEN TFreezePlus
           ELSE uv
PredSecondCallKeepsU == PredCalls >= 2 => ~PredChanged
PredFlagTruthful == PredCalls >= 1 => (pred_ret[PredCalls] <=> PredChanged)

\* C10: with the freezing modification a call snaps exactly the entries that
\* crossed 273.15 to 273.15 -/+ 0.00001 and leaves the others; a second call
\* with the same u0 leaves u unchanged; the flag returned is true iff the call
\* changed some entry of u.
C10_IdempotentAndTruthful ==
  /\ PredValuesAsClaimed
  /\ PredSecondCallKeepsU
  /\ PredFlagTruthful

\* ------------------------------------------------------------------------
\* Properties of EnergyBase::ModifyCorrection
\* ------------------------------------------------------------------------
CorrReturned == corr_ret # "none"
\* du with the boundary faces of a diffusive flux condition recomputed
CorrRewritten == RewriteBoundaryFaces(corr_bfs, corr_du_in)
CorrClipped ==
  T_limit_ > 0 /\
    (\/ \E c \in Cells : Abs(CorrRewritten.cell[c]) > T_limit_
     \/ \E i \in DOMAIN corr_bfs : Abs(CorrRewritten.boundary_face[i]) > T_limit_)

\* C8 as stated: ModifyCorrection returns CORRECTION_MODIFIED whenever it
\* altered an entry of du, the rewritten boundary_face entries included.
C8_ReportsEveryChange ==
  (CorrReturned /\ corr_du # corr_du_in) => corr_ret = "CORRECTION_MODIFIED"

\* C8 as amended: ModifyCorrection returns CORRECTION_MODIFIED whenever it cut
\* an entry of du to T_limit_; when it returns CORRECTION_NOT_MODIFIED the cell
\* entries of du are as passed in, and so are the boundary_face entries other
\* than those of faces with a Neumann diffusion marker and a Dirichlet
\* advection marker, which hold the recomputed value.
C8_ReportsLimiting ==
  CorrReturned =>
    /\ CorrClipped => corr_ret = "CORRECTION_MODIFIED"
    /\ corr_ret = "CORRECTION_NOT_MODIFIED" =>
         /\ corr_du.cell = corr_du_in.cell
         /\ \A i \in DOMAIN corr_bfs :
              corr_du.boundary_face[i] =
                IF DiffusiveFluxBC(corr_bfs[i])
                  THEN CorrRewritten.boundary_face[i]
                  ELSE corr_du_in.boundary_face[i]

C8_Witness ==
  /\ corr_ret = "CORRECTION_NOT_MODIFIED"
  /\ corr_du # corr_du_in
  /\ T_limit_ > 0

\* ------------------------------------------------------------------------
\* Properties of EnsureCompatibility
\* ------------------------------------------------------------------------
EcCallsReturned == Len(fld_log) - 1
\* the keys reachable from the keys S in n steps or fewer
RECURSIVE Descendants(_, _)
Descendants(S, n) ==
  IF n = 0 THEN S
  ELSE Descendants(S \cup UNION {ev_deps[k] : k \in S}, n - 1)
Acyclic ==
  \A k \in EvKeys : k \notin Descendants(ev_deps[k], Cardinality(EvKeys))

\* C11: an evaluator whose dependencies contain its own key is rejected with
\* an error by its EnsureCompatibility, whatever its kind and whether or not
\* its field has a mesh.
C11_SelfDependencyRejected ==
  \A k \in EvKeys :
    (k \in ev_deps[k] /\ ec_visits[k] >= 1) => ec_status = "error"

\* C12: EnsureCompatibility never recurses without end: it is never entered
\* for an evaluator whose call is still in progress (a dependency cycle ends
\* with an error before that).
C12_NoEndlessRecursion ==
  \A i, j \in DOMAIN ec_stack : i # j => ec_stack[i].key # ec_stack[j].key

\* C13: on an acyclic graph, within one top-level call the
\* EnsureCompatibility of every evaluator is entered at most once.
C13_SharedProcessedOnce ==
  Acyclic => \A k \in EvKeys : ec_visits[k] <= 1

\* layouts only grow: a mesh stays, components are added
Grows(fa, fb) ==
  \A k \in EvKeys : (fa[k].mesh => fb[k].mesh) /\ fa[k].comps \subseteq fb[k].comps
\* what a call on an overland root with a mesh gives its dependencies
RootPropagated(fa, fb) ==
  \A r \in RootKeys :
    (ev_kind[r] = "overland" /\ fa[r].mesh) =>
      /\ \A d \in ev_deps[r] : fb[d].mesh /\ "cell" \in fb[d].comps
      /\ "boundary_face" \in fa[r].comps => "boundary_face" \in fb[ev_mobile[r]].comps
\* a field gains a boundary_face component only as the mobile depth of an
\* overland evaluator whose own field has one
BfOnlyForMobile(fa, fb) ==
  \A d \in EvKeys :
    ("boundary_face" \in fb[d].comps /\ "boundary_face" \notin fa[d].comps) =>
      \E e \in EvKeys : /\ ev_kind[e] = "overland" /\ ev_mobile[e] = d
                        /\ "boundary_face" \in fb[e].comps

\* C14: every call that returns only adds to the layouts (the dependencies of
\* an overland evaluator gain a cell component on its mesh, its mobile depth a
\* boundary_face component iff its own field has one), and a second call
\* leaves every layout as the first call left it.
C14_SecondCallIdentical ==
  \A i \in 2..Len(fld_log) :
    /\ Grows(fld_log[i - 1], fld_log[i])
    /\ RootPropagated(fld_log[i - 1], fld_log[i])
    /\ BfOnlyForMobile(fld_log[i - 1], fld_log[i])
    /\ i >= 3 => fld_log[i] = fld_log[i - 1]

C14_Witness ==
  /\ Len(fld_log) = 3
  /\ fld_log[2] # fld_log[1]
  /\ \E r \in RootKeys :
       /\ ev_kind[r] = "overland"
       /\ "boundary_face" \in fld_log[1][r].comps
       /\ "boundary_face" \notin fld_log[1][ev_mobile[r]].comps
       /\ "boundary_face" \in fld_log[3][ev_mobile[r]].comps
       /\ \E d \in ev_deps[r] : "boundary_face" \notin fld_log[3][d].comps

\* ------------------------------------------------------------------------
\* Properties of HasFieldChanged
\* ------------------------------------------------------------------------
\* C15: the evaluation function of a field has run exactly once per epoch in
\* which the field was requested (the first request, and the first request
\* after a change of a dependency), however many requests were made; this for
\* every secondary evaluator, the water-table column evaluator included.
C15_OneEvaluationPerChange ==
  \A k \in HfKeys : hf_kind[k] # "leaf" => hf_evals[k] = hf_due[k]

\* C16: HasFieldChanged(key, requester) returns true iff a transitive
\* dependency of key changed since that requester last observed key (or the
\* requester never observed it); a query of one requester leaves the pending
\* change of another requester in place.
C16_ChangedIffPending ==
  hf_last.request # "none" => hf_last.ret = hf_last.due

C16_Witness ==
  /\ hf_ops = MaxHfOps
  /\ hf_kind[3] = "water_table" /\ hf_kind[2] = "secondary"
  /\ hf_last.key = 3 /\ hf_last.request = "pk1" /\ hf_last.ret = FALSE
  /\ hf_pending[<<3, "pk2">>]
  /\ hf_evals[3] >= 2

\* ------------------------------------------------------------------------
\* Properties of the pointwise functions
\* ------------------------------------------------------------------------
\* the analytic value a and the quotient fd agree within the relative tolerance
RelTol == R(1, 1000000)
WithinTol(a, fd) ==
  LET p == RAbs(RSub(a, fd))
      q == RAbs(fd)
  IN p.n * q.d <= (q.n * p.d * RelTol.n) \div RelTol.d

\* C17: the value and each partial derivative computed for entity i depend
\* only on the dependency values at entity i: with the dependencies changed
\* at another entity only, the result at i is the same.
C17_EntityLocal ==
  \A i \in DOMAIN pf_res.a : i # pf_cell => pf_res.a[i] = pf_res.b[i]

\* C18: the result of the partial-derivative evaluator matches the
\* finite-difference quotient of the value within 1e-6 relative, for every
\* declared dependency of the overland subgrid conductivity and for the
\* compressible porosity on both sides of pres = patm.
C18_PartialsMatchFiniteDifference ==
  pf_res.op = "partial" =>
    \A i \in DOMAIN pf_res.a : WithinTol(pf_res.a[i], pf_res.fd[i])

\* ------------------------------------------------------------------------
\* Properties of FATES_PK under rejected steps
\* ------------------------------------------------------------------------
\* C19: once the driver has rejected an attempt (and whenever no attempt is
\* pending), t_photosynthesis_, t_site_dym_ and the fluxes accumulated in the
\* external model are what they would be had only the accepted attempts been
\* made.
C19_RejectedStepLeavesNothing ==
  ft_phase = "idle" => FatesNow = ft_ref

\* ------------------------------------------------------------------------
\* Properties of Setup
\* ------------------------------------------------------------------------
\* C20: a second Setup leaves the required fields, layouts and evaluators of
\* the first, and every field, scalar and mesh the PK reads afterwards is one
\* its Setup required (or found in State) under the same configuration.
C20_SetupIdempotentAndComplete ==
  /\ \A i \in 3..Len(su_log) : su_log[i] = su_log[i - 1]
  /\ su_reads \subseteq su_ensured

\* ------------------------------------------------------------------------
\* Properties of Setup and Initialize
\* ------------------------------------------------------------------------
\* C21: after Initialize every field the PK required with itself as owner is
\* marked initialized; for EnergyBase the two energy fluxes, the upwinded
\* conductivity and (only when its key is not empty) the upwinded derivative
\* are zero; the derivative is required exactly when its key is not empty.
C21_OwnedFieldsInitialized ==
  eb_phase = "initialized" =>
    /\ \A f \in eb_required : eb_initialized[f]
    /\ eb_pk = "energy" =>
         /\ \A f \in eb_required \ {"temperature"} : eb_data[f] = 0
         /\ EnergyFluxFields \cup {UwKey} \subseteq eb_required
         /\ DuwKey \in eb_required <=> duw_conductivity_key_ # ""
         /\ duw_conductivity_key_ = "" => eb_initialized[DuwKey] = FALSE
    /\ eb_pk = "fates" => "fates" \in eb_required

C21_Witness ==
  /\ eb_phase = "initialized" /\ eb_pk = "energy"
  /\ duw_conductivity_key_ = DuwKey
  /\ eb_initialized[DuwKey] /\ eb_data[DuwKey] = 0
  /\ eb_initialized[UwKey]

\* C24: Setup of EnergyBase fails exactly when both surface couplings are
\* asked for or the upwinding method has another name than "cell centered"
\* and "arithmetic mean"; after a Setup that returned at most one coupling
\* flag is true and an upwinding strategy is set.
C24_SetupRejectsBadConfiguration ==
  (eb_pk = "energy" /\ eb_phase # "constructed") =>
    /\ eb_phase = "failed" <=>
         \/ plist_via_flux /\ plist_via_temp
         \/ method_name \notin {"cell centered", "arithmetic mean"}
    /\ eb_phase # "failed" =>
         /\ ~(coupled_to_surface_via_flux_ /\ coupled_to_surface_via_temp_)
         /\ upwinding_ # "null"

C24_Witness ==
  /\ eb_pk = "energy" /\ eb_phase = "failed"
  /\ plist_via_flux /\ plist_via_temp
  /\ method_name = "cell centered"
  /\ upwinding_ = "UpwindCellCentered"

\* ------------------------------------------------------------------------
\* Properties of FATES_PK::get_dt and the sub-cycle schedule
\* ------------------------------------------------------------------------
\* the four candidates of get_dt at the state of the last call
GdCandidates ==
  {gd_snap.st.tp + dt_photosynthesis_ - gd_snap.time, dt_photosynthesis_,
   gd_snap.st.td + dt_site_dym_ - gd_snap.time, dt_site_dym_}

\* C22: get_dt returns the least of t_photosynthesis_ + dt_photosynthesis_ - t,
\* dt_photosynthesis_, t_site_dym_ + dt_site_dym_ - t and dt_site_dym_ (so never
\* more than either period); a second call with no change of state in between
\* returns the same value; a call changes nothing but the cached dt_.
C22_GetDtIsLeastCandidate ==
  /\ [](gd_calls > 0 =>
          /\ dt_ \in GdCandidates
          /\ \A x \in GdCandidates : dt_ <= x
          /\ dt_ <= dt_photosynthesis_ /\ dt_ <= dt_site_dym_)
  /\ [][gd_calls' # gd_calls =>
          /\ UNCHANGED <<ftVars, mpcVars, suVars, ebVars>>
          /\ (gd_calls > 0 /\ gd_snap = GdSnap) => dt_' = dt_]_vars

C22_Witness ==
  /\ gd_calls = 2 /\ gd_snap = GdSnap
  /\ t_photosynthesis_ > S_time
  /\ dt_ = dt_photosynthesis_

\* the time the PK has been advanced to
FatesCurrentTime == IF ft_phase = "advanced" THEN ft_tnew ELSE S_time

\* C27: with steps of at most get_dt, get_dt stays strictly positive, the times
\* of the last photosynthesis and of the last vegetation dynamics never exceed
\* the current time, and at a committed time t photosynthesis has run once
\* for each multiple of dt_photosynthesis_ up to t and the vegetation dynamics
\* once for each multiple of dt_site_dym_ up to t.
C27_SubcycleSchedule ==
  /\ get_dt(t_photosynthesis_, t_site_dym_, dt_photosynthesis_, dt_site_dym_,
            S_time) > 0
  /\ t_photosynthesis_ <= FatesCurrentTime
  /\ t_site_dym_ <= FatesCurrentTime
  /\ ft_phase = "idle" =>
       /\ t_photosynthesis_ = dt_photosynthesis_ * (S_time \div dt_photosynthesis_)
       /\ t_site_dym_ = dt_site_dym_ * (S_time \div dt_site_dym_)
       /\ clump_.acc = t_photosynthesis_
       /\ clump_.dyn = S_time \div dt_site_dym_

C27_HoldsWithoutRejection == ft_rejected = 0 => C27_SubcycleSchedule

\* ------------------------------------------------------------------------
\* Properties of the limit on the temperature correction
\* ------------------------------------------------------------------------
\* the entries of du are those of from, cut to T_limit_ where they exceed it,
\* and CORRECTION_MODIFIED is returned exactly when an entry of some rank
\* exceeded it
CorrLimits(from) ==
  LET Entry(x, y) == /\ Abs(y) <= T_limit_
                     /\ Abs(x) > T_limit_ => y = Sign(x) * T_limit_
                     /\ Abs(x) <= T_limit_ => y = x
      exceeded == \/ \E c \in Cells : Abs(from.cell[c]) > T_limit_
                  \/ \E i \in DOMAIN corr_bfs : Abs(from.boundary_face[i]) > T_limit_
                  \/ other_limited > 0
  IN /\ \A c \in Cells : Entry(from.cell[c], corr_du.cell[c])
     /\ \A i \in DOMAIN corr_bfs :
          Entry(from.boundary_face[i], corr_du.boundary_face[i])
     /\ corr_ret = "CORRECTION_MODIFIED" <=> exceeded

CorrNotLimited ==
  /\ corr_du = CorrRewritten
  /\ corr_ret = "CORRECTION_NOT_MODIFIED"

\* C23 as stated: with T_limit_ > 0 every entry of du passed in that exceeded
\* the limit is sign(du) * T_limit_ after the call and every other entry is
\* unchanged; MODIFIED is returned iff an entry on some rank was cut; with
\* T_limit_ <= 0 nothing is cut.
C23_LimitsEntriesPassedIn ==
  CorrReturned => IF T_limit_ > 0 THEN CorrLimits(corr_du_in) ELSE CorrNotLimited

\* C23 as amended: the limit applies to du as it stands after the boundary_face
\* entries of the faces with a diffusive flux condition have been recomputed:
\* with T_limit_ > 0 each of these entries beyond the limit becomes
\* sign(du) * T_limit_, the others are kept, and MODIFIED is returned iff an
\* entry on some rank was cut; with T_limit_ <= 0 nothing is cut.
C23_LimitsEntriesAfterRewrite ==
  CorrReturned => IF T_limit_ > 0 THEN CorrLimits(CorrRewritten) ELSE CorrNotLimited

C23_Witness ==
  /\ CorrReturned /\ T_limit_ > 0 /\ other_limited = 0
  /\ \E i \in DOMAIN corr_bfs :
       /\ DiffusiveFluxBC(corr_bfs[i])
       /\ corr_du_in.boundary_face[i] < 0
       /\ corr_du.boundary_face[i] = T_limit_

\* ------------------------------------------------------------------------
\* Properties of the partial derivatives by key
\* ------------------------------------------------------------------------
\* the answers that are a partial of the evaluator's model
PdModelPartials ==
  {LiquidIceBranches[i][2] : i \in DOMAIN LiquidIceBranches}
    \cup {OverlandBranches[i][2] : i \in DOMAIN OverlandBranches}

\* C25: a request with respect to a declared dependency is answered by the
\* model partial of that dependency, and a request with respect to any other
\* key by no partial at all: the two energy evaluators fail their assertion
\* (where assertions are compiled in), and the overland subgrid evaluator
\* answers each of its six dependencies with a partial of its model.
C25_EveryDependencyHasItsPartial ==
  pd_answer # "none" =>
    IF pd_wrt \in PdDependencies(pd_kind)
      THEN /\ pd_answer \in PdModelPartials
           /\ \A w \in PdDependencies(pd_kind) \ {pd_wrt} :
                (pd_kind = "overland" => OverlandPartialDerivative_(w) # pd_answer)
      ELSE /\ pd_answer \notin PdModelPartials
           /\ (pd_kind # "overland" /\ pd_dbc) => pd_answer = "AMANZI_ASSERT(0)"

\* the same with the overland evaluator left out
C25_EnergyEvaluatorsOnly == pd_kind # "overland" => C25_EveryDependencyHasItsPartial

\* ------------------------------------------------------------------------
\* Properties of the EWC delegate pointer
\* ------------------------------------------------------------------------
\* C26: after a setup that returned, preconditioner type EWC implies that the
\* EWC delegate exists, and update_precon and precon never use a delegate
\* that does not exist.
C26_EwcTypeHasDelegate ==
  /\ (pk_phase = "setup" /\ precon_type_ = "PRECON_EWC") => ewc_
  /\ ~mpc_crashed

\* ------------------------------------------------------------------------
\* Properties of MPCSubsurface::modify_predictor and modify_correction
\* ------------------------------------------------------------------------
MpIndex(call) ==
  IF \E i \in DOMAIN mp_trace : mp_trace[i] = call
    THEN CHOOSE i \in DOMAIN mp_trace : mp_trace[i] = call
    ELSE 0

\* C30: modify_predictor calls the delegate, when there is one, before the
\* face update of the base coupler, which it always calls (so the faces are
\* consistent with the cells the delegate left); it marks the solution
\* changed exactly when the delegate modified, and returns true iff the
\* delegate or the base coupler modified. modify_correction returns false
\* and leaves du as it was.
C30_DelegateThenBase ==
  /\ mp_op = "modify_predictor" =>
       /\ mp_trace[Len(mp_trace)] = "MPCCoupledCells::modify_predictor"
       /\ Cardinality({i \in DOMAIN mp_trace :
                         mp_trace[i] = "MPCCoupledCells::modify_predictor"}) = 1
       /\ mp_ewc <=> MpIndex("ewc_->modify_predictor") = 1
       /\ mp_answers.delegate <=> MpIndex("changed_solution") = 2
       /\ mp_ret <=> (mp_answers.delegate \/ mp_answers.base)
       /\ mp_answers.base => mp_out.face = mp_out.cell
       /\ mp_out.cell = mp_in.cell + (IF mp_answers.delegate THEN 1 ELSE 0)
  /\ mp_op = "modify_correction" =>
       /\ mp_ret = FALSE
       /\ mp_out = mp_in

C30_Witness ==
  /\ mp_op = "modify_predictor" /\ mp_ewc
  /\ mp_answers.delegate /\ mp_answers.base
  /\ mp_ret
  /\ mp_out.face = mp_in.cell + 1

\* ------------------------------------------------------------------------
\* Properties of the boundary conditions
\* ------------------------------------------------------------------------
\* the conditions that name face f, in the order they are applied
BcNaming(f) ==
  LET named(fn) == f \in bc_faces[fn]
      coupled(c) == bc_coupling = c /\ f \in SurfaceParent
  IN IF coupled("flux") THEN "surface flux"
     ELSE IF coupled("temperature") THEN "surface temperature"
     ELSE IF named("bc_diff_flux_") THEN "bc_diff_flux_"
     ELSE IF named("bc_flux_") THEN "bc_flux_"
     ELSE IF named("bc_temperature_") THEN "bc_temperature_"
     ELSE "none"

BcExpected(f) ==
  LET by == BcNaming(f)
      Face(m, v, a) == [marker |-> m, value |-> v, adv_marker |-> a, adv_value |-> 0]
      At(fn) == BcFunctionValue(fn, bc_computed[fn])
  IN CASE by = "surface flux" ->
            Face("OPERATOR_BC_NEUMANN", SurfaceFluxPerArea, "OPERATOR_BC_DIRICHLET")
       [] by = "surface temperature" ->
            Face("OPERATOR_BC_DIRICHLET", SurfaceTemperature, "OPERATOR_BC_DIRICHLET")
       [] by = "bc_diff_flux_" ->
            Face("OPERATOR_BC_NEUMANN", At(by), "OPERATOR_BC_DIRICHLET")
       [] by = "bc_flux_" ->
            Face("OPERATOR_BC_NEUMANN", At(by), "OPERATOR_BC_NEUMANN")
       [] by = "bc_temperature_" ->
            Face("OPERATOR_BC_DIRICHLET", At(by), "OPERATOR_BC_DIRICHLET")
       [] OTHER ->
            IF f \in BcOwned /\ BcNCells[f] = 1
              THEN Face("OPERATOR_BC_NEUMANN", 0, "OPERATOR_BC_DIRICHLET")
              ELSE BcNone

\* C28: after UpdateBoundaryConditions_ every owned face with one cell has a
\* diffusion marker; a face no condition names is Neumann with value 0 and a
\* Dirichlet advection marker when it is owned and has one cell, and has no
\* marker and value 0 otherwise; a face several conditions name has the
\* marker and value of the last of them in the order temperature, total flux,
\* diffusive flux, surface temperature, surface flux; nothing of the markers
\* and values before the call is left.
C28_MarkersCompleteLastWins ==
  bc_built.by # "none" =>
    /\ \A f \in BcFaces : bc_state[f] = BcExpected(f)
    /\ \A f \in BcOwned :
         BcNCells[f] = 1 => bc_state[f].marker # "OPERATOR_BC_NONE"

C28_Witness ==
  /\ bc_built.by # "none"
  /\ bc_faces["bc_temperature_"] = {1, 2}
  /\ bc_faces["bc_diff_flux_"] = {2}
  /\ bc_faces["bc_flux_"] = {}
  /\ bc_coupling = "flux"
  /\ bc_state[1].marker = "OPERATOR_BC_NEUMANN"
  /\ bc_state[2].adv_marker = "OPERATOR_BC_DIRICHLET"
  /\ bc_state[3] = BcNone

\* C29: whenever UpdateBoundaryConditions_ builds the markers for a time t,
\* the temperature, the total flux and the diffusive flux function have all
\* been computed at t.
C29_FunctionsComputedAtBuildTime ==
  bc_built.by # "none" =>
    \A fn \in BcFunctions : bc_built.computed[fn] = bc_built.time

\* the same for the markers built by CommitStep alone
C29_HoldsInCommitStep ==
  bc_built.by = "CommitStep" => C29_FunctionsComputedAtBuildTime

====
